---------------------------- MODULE Spec2Model ----------------------------
(***************************************************************************)
(* Verification model of the Ashour158/ERP_Final storage, database-URI and *)
(* rate-limiting subsystem.                                                *)
(*                                                                         *)
(* One module, several specifications, one per subsystem:                  *)
(*   SpecRL      the fixed-window rate limiter check(clientKey, limit, w)  *)
(***************************************************************************)
EXTENDS Integers, Sequences, FiniteSets, TLC

VARIABLES
    now,        \* the wall clock, in seconds (time.time())
    hits,       \* rate-limit state: limiter -> client key -> entry or NoEntry
    rlLog,      \* history: limiter -> client key -> the calls of the last window span
    rlLast,     \* the last answer of check, with the entry it found
    uin,        \* the connection string handed to db_utils, with its parts
    called,     \* the db_utils functions that have been applied to uin
    masked,     \* mask_db_uri(uin)
    maskedAlt,  \* mask_db_uri of the same URI carrying other credentials
    prodReady,  \* is_valid_prod_db_url(uin)
    files,      \* the upload folder: path -> bytes, for the paths that exist
    uploads,    \* history: the uploads answered 201, <<path, bytes>>, in order
    upLast,     \* the last upload request with its response
    served,     \* the number of upload requests handled
    kin,        \* a save_file call: backend, filename, folder, names taken
    kout,       \* the storage key save_file returns for kin
    env,        \* os.environ: the variables that are set to a non-empty value
    boto3,      \* the object-store client library: "ok", "missing", "fails"
    folderOk,   \* whether os.makedirs of the uploads folder succeeds
    facLast,    \* the last call of create_storage_backend with its outcome
    dbUp,       \* whether the database answers a probe
    hLast,      \* the last request to the health endpoint with its response
    lock,       \* the mutex of the rate-limit map: its holder, or NoThread
    tpc,        \* worker thread -> where it is in check
    tloc,       \* worker thread -> the entry and the time it has read
    route,      \* the code path concurrent uploads take: "endpoint" or "backend"
    wk,         \* upload worker -> its position, filename, counter and path
    disk,       \* the uploads folder of the local backend: the files, path -> bytes
    dirs,       \* the directories below the uploads folder
    bucket,     \* the objects of the Spaces bucket, key -> bytes
    client,     \* whether the Spaces backend has a client (self.client is not None)
    stLast,     \* the last storage backend call with its outcome
    stOps,      \* the number of storage backend calls made
    sb,         \* storage.py's global _storage_backend: an instance, or NoInstance
    sbpc,       \* request thread -> where it is in get_storage_backend
    sbLoc,      \* request thread -> the instance it has built or been returned
    sbBuilt,    \* how many times create_storage_backend has run
    uriOut,     \* the last db_utils call with what it returned or raised
    companies,  \* table companies: id -> row
    users,      \* table users: id -> row
    erpLast,    \* the last ERP request with its response
    kpis,       \* table user_kpis: the rows, one per (user, module, kpi_name)
    alerts,     \* table vigilance_alerts: the (user, kpi_name) that have an alert
    attendance, \* table attendance_records: the rows, in insertion order
    attReq,     \* request worker -> the check-in/check-out request it is handling
    attDone,    \* history: kind -> day -> the number of requests answered 200
    likes,      \* table community_likes: the rows of the post
    likes_count, \* column likes_count of the post
    likeReq,    \* request worker -> the like request it is handling
    likeSeq,    \* the last id the database gave to a row of community_likes
    likeLast,   \* the last like request that was answered, with the counts
    tables,     \* the database init_database works on: companies and users
    initRun     \* the run of init_database in progress, and the runs so far

rlVars == <<now, hits, rlLog, rlLast>>
uriVars == <<uin, called, masked, maskedAlt, prodReady>>
upVars == <<files, uploads, upLast, served>>
keyVars == <<kin, kout>>
facVars == <<env, boto3, folderOk, facLast>>
\* the state of the service around the four core subsystems
hlVars == <<dbUp, hLast>>
thVars == <<lock, tpc, tloc>>
wkVars == <<route, wk>>
stVars == <<disk, dirs, bucket, client, stLast, stOps>>
sbVars == <<sb, sbpc, sbLoc, sbBuilt>>
\* the state of the application around the storage and rate-limit services
infoVars == <<uriOut>>
erpVars == <<companies, users, erpLast, kpis, alerts>>
attVars == <<attendance, attReq, attDone>>
likeVars == <<likes, likes_count, likeReq, likeSeq, likeLast>>
initVars == <<tables, initRun>>
appVars == <<sbVars, infoVars, erpVars, attVars, likeVars, initVars>>
\* the application state a subsystem leaves alone
sbRest == <<infoVars, erpVars, attVars, likeVars, initVars>>
infoRest == <<sbVars, erpVars, attVars, likeVars, initVars>>
erpRest == <<sbVars, infoVars, attVars, likeVars, initVars>>
attRest == <<sbVars, infoVars, erpVars, likeVars, initVars>>
likeRest == <<sbVars, infoVars, erpVars, attVars, initVars>>
initRest == <<sbVars, infoVars, erpVars, attVars, likeVars>>
svcVars == <<facVars, hlVars, thVars, wkVars, stVars, appVars>>
coreVars == <<rlVars, uriVars, upVars, keyVars>>
vars == <<now, hits, rlLog, rlLast, uin, called, masked, maskedAlt, prodReady,
          files, uploads, upLast, served, kin, kout,
          env, boto3, folderOk, facLast, dbUp, hLast, lock, tpc, tloc,
          route, wk, disk, dirs, bucket, client, stLast, stOps, appVars>>

\* ------------------------------------------------------------------ bounds
MaxTime == 4
MaxOver == 2
MaxRequests == 3
MaxUploadTime == 1
MaxNameLen == 2
MaxTaken == 2
MaxThreads == 2
MaxOps == 3
\* the window length in clock ticks (the tests configure 10 s and 60 s windows)
WindowSeconds == 2

\* --------------------------------------------------------- rate limiter
Clients == {"1.1.1.1", "2.2.2.2"}
Limiters == {"upload", "health"}

RATE_LIMIT_UPLOAD_MAX_REQUESTS == 2
RATE_LIMIT_HEALTH_MAX_REQUESTS == 3

Limit(l) == IF l = "upload" THEN RATE_LIMIT_UPLOAD_MAX_REQUESTS
                            ELSE RATE_LIMIT_HEALTH_MAX_REQUESTS
Window(l) == WindowSeconds

NoEntry == [count |-> 0, start |-> -1]
None == [kind |-> "none"]

\* the window of entry e is over at time t ("after the window has elapsed
\* since that key's window start"); a key seen for the first time has no entry
WindowElapsedMut(e, w, t) == e = NoEntry \/ t - e.start > w
WindowElapsed(e, w, t) == e = NoEntry \/ t - e.start >= w

\* the entry the counter is incremented on: a fresh window or the current one
WindowEntry(e, w, t) ==
    IF WindowElapsed(e, w, t) THEN [count |-> 0, start |-> t] ELSE e

AllowedMut(count, limit) == count <= limit + 1
Allowed(count, limit) == count <= limit

\* remaining computed from the count before the increment
RemainingMut(count, limit) == IF Allowed(count, limit) THEN limit - (count - 1) ELSE 0
Remaining(count, limit) == IF Allowed(count, limit) THEN limit - count ELSE 0

\* one map shared by the limiters
StoreShared(h, l, k, e) == [m \in Limiters |-> [h[m] EXCEPT ![k] = e]]
StoreMut(h, l, k, e) == [h EXCEPT ![l] = [c \in Clients |-> e]]
\* the state after a check of key k on limiter l that leaves entry e
Store(h, l, k, e) == [h EXCEPT ![l][k] = e]

\* calls that can still lie in a window that is not over at time t
Recent(log, w, t) == SelectSeq(log, LAMBDA c : c.at > t - w)

\* check(clientKey, limit, windowSeconds) -> {allowed, remaining, resetAt}
CheckCore(l, k) ==
    LET e == hits[l][k]
        base == WindowEntry(e, Window(l), now)
        cnt == base.count + 1
        ok == Allowed(cnt, Limit(l))
    IN  /\ cnt <= Limit(l) + MaxOver
        /\ hits' = Store(hits, l, k, [count |-> cnt, start |-> base.start])
        /\ rlLast' = [kind |-> "check", limiter |-> l, key |-> k, at |-> now,
                      prev |-> e, allowed |-> ok,
                      remaining |-> Remaining(cnt, Limit(l)),
                      resetAt |-> base.start + Window(l)]
        /\ rlLog' = [rlLog EXCEPT ![l][k] =
                        Append(Recent(@, Window(l), now), [at |-> now, allowed |-> ok])]
        /\ UNCHANGED now

Check(l, k) == CheckCore(l, k) /\ UNCHANGED <<uriVars, upVars, keyVars, svcVars>>

\* the clock advances between requests
TickTo(horizon) ==
    /\ now < horizon
    /\ now' = now + 1
    /\ UNCHANGED <<hits, rlLog, rlLast, uriVars, upVars, keyVars, svcVars>>
Tick == TickTo(MaxTime)

\* the state of a subsystem that a specification does not drive
RLIdle ==
    /\ now = 0
    /\ hits = [l \in Limiters |-> [k \in Clients |-> NoEntry]]
    /\ rlLog = [l \in Limiters |-> [k \in Clients |-> <<>>]]
    /\ rlLast = None
UriIdle ==
    /\ uin = None
    /\ called = {}
    /\ masked = <<>>
    /\ maskedAlt = <<>>
    /\ prodReady = FALSE

UpIdle ==
    /\ files = {}
    /\ uploads = <<>>
    /\ upLast = None
    /\ served = 0

KeyIdle ==
    /\ kin = None
    /\ kout = None

FacIdle ==
    /\ env = {}
    /\ boto3 = "ok"
    /\ folderOk = TRUE
    /\ facLast = None

HlIdle ==
    /\ dbUp = TRUE
    /\ hLast = None

Threads == 1..MaxThreads
NoThread == 0

ThIdle ==
    /\ lock = NoThread
    /\ tpc = [t \in Threads |-> "idle"]
    /\ tloc = [t \in Threads |-> None]

Workers == {"w1", "w2"}

WkIdle ==
    /\ route = "endpoint"
    /\ wk = [w \in Workers |-> [pc |-> "idle"]]

StIdle ==
    /\ disk = {}
    /\ dirs = {}
    /\ bucket = {}
    /\ client = FALSE
    /\ stLast = None
    /\ stOps = 0

NoInstance == 0

SbIdle ==
    /\ sb = NoInstance
    /\ sbpc = [t \in Threads |-> "idle"]
    /\ sbLoc = [t \in Threads |-> NoInstance]
    /\ sbBuilt = 0

InfoIdle == uriOut = None
ErpIdle == companies = <<>> /\ users = <<>> /\ erpLast = None /\ kpis = {} /\ alerts = {}
MaxDays == 1
AttKinds == {"checkin", "checkout"}

AttIdle ==
    /\ attendance = <<>>
    /\ attReq = [w \in Workers |-> [pc |-> "idle"]]
    /\ attDone = [k \in AttKinds |-> [d \in 0..MaxDays |-> 0]]
LikeIdle ==
    /\ likes = {}
    /\ likes_count = 0
    /\ likeReq = [w \in Workers |-> [pc |-> "idle"]]
    /\ likeSeq = 0
    /\ likeLast = None
InitDbIdle == tables = None /\ initRun = None

AppIdle == SbIdle /\ InfoIdle /\ ErpIdle /\ AttIdle /\ LikeIdle /\ InitDbIdle

SvcIdle == FacIdle /\ HlIdle /\ ThIdle /\ WkIdle /\ StIdle /\ AppIdle

CoreIdle == RLIdle /\ UriIdle /\ UpIdle /\ KeyIdle

InitRL ==
    /\ UriIdle
    /\ UpIdle
    /\ KeyIdle
    /\ SvcIdle
    /\ RLIdle

\* the limiter whose check SpecRL drives; both limiters run the same check
RLimiter == "upload"

NextRL ==
    \/ \E k \in Clients : Check(RLimiter, k)
    \/ Tick

SpecRL == InitRL /\ [][NextRL]_vars

\* ------------------------------------------------------------------ C1..C3
\* the logged calls of key k that fall into the key's current window
InWindow(l, k) ==
    {i \in DOMAIN rlLog[l][k] :
        /\ rlLog[l][k][i].at >= hits[l][k].start
        /\ rlLog[l][k][i].at < hits[l][k].start + Window(l)}

\* C1: for every client key, at most `limit` of the calls made within one
\* window of that key are answered allowed=true, and every call after the
\* limit-th call of the window is answered allowed=false with remaining=0.
C1_AtMostLimitAllowed ==
    /\ \A l \in Limiters, k \in Clients :
          hits[l][k] # NoEntry =>
            Cardinality({i \in InWindow(l, k) : rlLog[l][k][i].allowed}) <= Limit(l)
    /\ rlLast.kind = "check" =>
          (Cardinality(InWindow(rlLast.limiter, rlLast.key)) > Limit(rlLast.limiter)
             => ~rlLast.allowed /\ rlLast.remaining = 0)

\* a key has used its whole allowance and one more call was denied
C1_Witness ==
    /\ rlLast.kind = "check" /\ ~rlLast.allowed /\ rlLast.remaining = 0
    /\ Cardinality({i \in InWindow(rlLast.limiter, rlLast.key) :
                        rlLog[rlLast.limiter][rlLast.key][i].allowed})
          = Limit(rlLast.limiter)
    /\ Cardinality(InWindow(rlLast.limiter, rlLast.key)) = Limit(rlLast.limiter) + 2

\* C2: once windowSeconds have elapsed since a key's window start, the next
\* check of that key resets the counter, starts a new window at the time of
\* the call and is allowed, whatever was counted in the old window; a denied
\* call leaves the window start where it was.
C2_ExpiredWindowResets ==
    rlLast.kind = "check" =>
      LET l == rlLast.limiter
          k == rlLast.key
          e == rlLast.prev
      IN  /\ (e # NoEntry /\ rlLast.at - e.start >= Window(l)) =>
                /\ rlLast.allowed
                /\ rlLast.remaining = Limit(l) - 1
                /\ hits[l][k] = [count |-> 1, start |-> rlLast.at]
                /\ rlLast.resetAt = rlLast.at + Window(l)
          /\ ~rlLast.allowed => e # NoEntry /\ hits[l][k].start = e.start

\* a key that was denied, and kept sending, is allowed again in its next window
C2_Witness ==
    /\ rlLast.kind = "check" /\ rlLast.allowed
    /\ rlLast.prev # NoEntry
    /\ rlLast.prev.count >= Limit(rlLast.limiter) + 2
    /\ rlLast.at - rlLast.prev.start = Window(rlLast.limiter)

\* C3: a check of key A changes the entry of no other key B, and the first
\* check of a key that has no request in its current window is allowed with
\* remaining = limit - 1, whatever the other keys did.
C3_PerClient ==
    /\ [][\A l \in Limiters, k \in Clients :
            hits'[l][k] # hits[l][k] =>
              rlLast'.kind = "check" /\ rlLast'.limiter = l /\ rlLast'.key = k]_vars
    /\ [](rlLast.kind = "check" =>
            (WindowElapsed(rlLast.prev, Window(rlLast.limiter), rlLast.at) =>
               rlLast.allowed /\ rlLast.remaining = Limit(rlLast.limiter) - 1))

\* key B makes its first request while key A is over its limit
C3_Witness ==
    /\ rlLast.kind = "check" /\ rlLast.prev = NoEntry
    /\ rlLast.allowed /\ rlLast.remaining = Limit(rlLast.limiter) - 1
    /\ \E a \in Clients \ {rlLast.key} :
          /\ hits[rlLast.limiter][a].count > Limit(rlLast.limiter)
          /\ rlLast.at - hits[rlLast.limiter][a].start < Window(rlLast.limiter)

\* ------------------------------------------------------- string helpers
\* A string is a sequence of characters.  A word ("postgresql", "user",
\* "prod") stands for a run of letters and is handled as one letter; the
\* separators the parser looks for (: / @ ? # [ ]) and the digits are single
\* characters.
Digits == <<"0", "1", "2", "3", "4", "5", "6", "7", "8", "9">>
IsDigit(c) == \E i \in DOMAIN Digits : Digits[i] = c
DigitVal(c) == (CHOOSE i \in DOMAIN Digits : Digits[i] = c) - 1

UpperWords == {"POSTGRESQL", "PROD", "TXT"}
Words == {"postgresql", "postgresql+psycopg2", "mysql", "sqlite", "http",
          "user", "secret", "user2", "secret2", "prod", "localhost",
          "127.0.0.1", "0.0.0.0", "appdb", "app.db", "data", "memory",
          "ssl", "frag", "invalid-url", "postgres", "oracle", "mssql",
          "mysql+pymysql", "oracle+cx_oracle"} \cup UpperWords

\* str.lower()
LowerChar(c) == IF c = "POSTGRESQL" THEN "postgresql"
                ELSE IF c = "PROD" THEN "prod"
                ELSE IF c = "TXT" THEN "txt" ELSE c
Lower(s) == [i \in DOMAIN s |-> LowerChar(s[i])]

\* str.find(c) + 1: the first position of c in s, 0 when there is none
Find(s, c) ==
    IF \E i \in DOMAIN s : s[i] = c
    THEN CHOOSE i \in DOMAIN s : s[i] = c /\ \A j \in 1..(i - 1) : s[j] # c
    ELSE 0
\* str.rfind(c) + 1
RFind(s, c) ==
    IF \E i \in DOMAIN s : s[i] = c
    THEN CHOOSE i \in DOMAIN s : s[i] = c /\ \A j \in (i + 1)..Len(s) : s[j] # c
    ELSE 0
Before(s, i) == SubSeq(s, 1, i - 1)
After(s, i) == SubSeq(s, i + 1, Len(s))
\* str.partition(c) and str.rpartition(c): <<head, found, tail>>
Partition(s, c) ==
    LET i == Find(s, c)
    IN  IF i = 0 THEN <<s, FALSE, <<>>>> ELSE <<Before(s, i), TRUE, After(s, i)>>
RPartition(s, c) ==
    LET i == RFind(s, c)
    IN  IF i = 0 THEN <<<<>>, FALSE, s>> ELSE <<Before(s, i), TRUE, After(s, i)>>
Has(s, c) == Find(s, c) # 0
\* s[:n]
Prefix(s, n) == SubSeq(s, 1, IF n < Len(s) THEN n ELSE Len(s))

\* int(s) for a string of digits
RECURSIVE ToInt(_)
ToInt(s) == IF s = <<>> THEN 0
            ELSE 10 * ToInt(SubSeq(s, 1, Len(s) - 1)) + DigitVal(s[Len(s)])
\* str(n) for n >= 0
RECURSIVE IntToStr(_)
IntToStr(n) == IF n < 10 THEN <<Digits[n + 1]>>
               ELSE IntToStr(n \div 10) \o <<Digits[(n % 10) + 1]>>

\* ------------------------------------------- urllib.parse, as db_utils uses it
NoneVal == <<"None">>      \* Python's None (str(None) when formatted)

SchemeChars == Words \cup {"+", "-", "."} \cup {Digits[i] : i \in DOMAIN Digits}

\* urlsplit: the scheme is what precedes the first ':' when it is made of
\* scheme characters and starts with a letter; it is lower-cased
SplitScheme(url) ==
    LET i == Find(url, ":")
    IN  IF i > 1 /\ url[1] \in Words /\ \A j \in 1..(i - 1) : url[j] \in SchemeChars
        THEN <<Lower(Before(url, i)), After(url, i)>>
        ELSE <<<<>>, url>>

\* _splitnetloc: after '//' the authority runs up to the first of / ? #
SplitNetloc(rest) ==
    IF Prefix(rest, 2) = <<"/", "/">>
    THEN LET body == SubSeq(rest, 3, Len(rest))
             stops == {i \in DOMAIN body : body[i] \in {"/", "?", "#"}}
             d == IF stops = {} THEN Len(body) + 1
                  ELSE CHOOSE i \in stops : \A j \in stops : i <= j
         IN  <<SubSeq(body, 1, d - 1), SubSeq(body, d, Len(body))>>
    ELSE <<<<>>, rest>>

\* urlparse(url): err is the ValueError of an unbalanced '[' or ']'
urlparse(url) ==
    LET ss == SplitScheme(url)
        nl == SplitNetloc(ss[2])
        fr == Partition(nl[2], "#")
        qu == Partition(fr[1], "?")
    IN  [err |-> Has(nl[1], "[") # Has(nl[1], "]"),
         scheme |-> ss[1], netloc |-> nl[1], path |-> qu[1],
         query |-> qu[3], fragment |-> fr[3]]

\* SplitResult._userinfo
UserInfo(netloc) ==
    LET at == RPartition(netloc, "@")
        up == Partition(at[1], ":")
    IN  IF at[2] THEN <<up[1], IF up[2] THEN up[3] ELSE NoneVal>>
        ELSE <<NoneVal, NoneVal>>
username(parsed) == UserInfo(parsed.netloc)[1]
password(parsed) == UserInfo(parsed.netloc)[2]

\* SplitResult._hostinfo
HostInfo(netloc) ==
    LET hostinfo == RPartition(netloc, "@")[3]
        br == Partition(hostinfo, "[")
        inner == Partition(br[3], "]")
        plain == Partition(hostinfo, ":")
        host == IF br[2] THEN inner[1] ELSE plain[1]
        port == IF br[2] THEN Partition(inner[3], ":")[3] ELSE plain[3]
    IN  <<host, IF port = <<>> THEN NoneVal ELSE port>>
\* SplitResult.hostname: lower-cased, None when empty
hostname(parsed) ==
    LET h == HostInfo(parsed.netloc)[1]
    IN  IF h = <<>> THEN NoneVal ELSE Lower(h)
\* SplitResult.port raises ValueError for a port that is no number in 0..65535
PortRaises(parsed) ==
    LET p == HostInfo(parsed.netloc)[2]
    IN  /\ p # NoneVal
        /\ \/ \E i \in DOMAIN p : ~IsDigit(p[i])
           \/ ToInt(p) > 65535
\* SplitResult.port: an int, or None (-1) when the authority names no port
NoPort == -1
port(parsed) ==
    LET p == HostInfo(parsed.netloc)[2]
    IN  IF p = NoneVal THEN NoPort ELSE ToInt(p)

\* Python truth value of a str-or-None and of an int-or-None
Truthy(s) == s # NoneVal /\ s # <<>>
TruthyPort(n) == n # NoPort /\ n # 0

\* urllib.parse.uses_netloc, as far as the schemes of the model go
uses_netloc == {<<"http">>}

\* urlunparse((scheme, netloc, path, '', query, fragment))
urlunparse(scheme, netloc, path, query, fragment) ==
    LET nl == IF netloc = NoneVal THEN <<>> ELSE netloc
        p1 == IF nl # <<>> \/ (scheme \in uses_netloc /\ Prefix(path, 2) # <<"/", "/">>)
              THEN <<"/", "/">> \o nl
                     \o (IF path # <<>> /\ path[1] # "/" THEN <<"/">> ELSE <<>>) \o path
              ELSE path
        p2 == IF scheme # <<>> THEN scheme \o <<":">> \o p1 ELSE p1
        p3 == IF query # <<>> THEN p2 \o <<"?">> \o query ELSE p2
    IN  IF fragment # <<>> THEN p3 \o <<"#">> \o fragment ELSE p3

\* ---------------------------------------------------------------- db_utils
NotConfigured == <<"Not configured">>
Unparseable == <<"***invalid_or_unparseable_uri***">>
MaskToken == <<"***masked***">>

\* the netloc mask_db_uri rebuilds; err when the rebuilding raises
\* (parsed.port raises, or None += str)
MaskedNetloc(parsed) ==
    LET u == IF Truthy(username(parsed)) THEN MaskToken ELSE <<>>
        p == IF Truthy(password(parsed)) THEN MaskToken ELSE <<>>
        h == hostname(parsed)
        base == IF u # <<>> /\ p # <<>> THEN u \o <<":">> \o p \o <<"@">> \o h
                ELSE IF u # <<>> THEN u \o <<"@">> \o h
                ELSE h
    IN  IF PortRaises(parsed) THEN [err |-> TRUE, netloc |-> <<>>]
        ELSE IF TruthyPort(port(parsed))
        THEN [err |-> base = NoneVal /\ u = <<>>,
              netloc |-> base \o <<":">> \o IntToStr(port(parsed))]
        ELSE [err |-> FALSE, netloc |-> base]

mask_db_uri(database_uri) ==
    IF ~Truthy(database_uri) THEN NotConfigured
    ELSE LET parsed == urlparse(database_uri)
         IN  IF parsed.err THEN Unparseable
             ELSE IF parsed.scheme = <<"sqlite">>
             THEN IF parsed.path = <<":", "memory", ":">>
                  THEN <<"sqlite", ":", "/", "/", "/", ":", "memory", ":">>
                  ELSE IF /\ parsed.path # <<>>
                          /\ parsed.path[1] = "/"
                          /\ Has(Tail(parsed.path), "/")
                  THEN <<"sqlite", ":", "/", "/", "/">> \o RPartition(parsed.path, "/")[3]
                  ELSE <<"sqlite", ":", "/", "/">> \o parsed.path
             ELSE IF Truthy(username(parsed)) \/ Truthy(password(parsed))
             THEN LET m == MaskedNetloc(parsed)
                  IN  IF m.err THEN Unparseable
                      ELSE urlunparse(parsed.scheme, m.netloc, parsed.path,
                                      parsed.query, parsed.fragment)
             ELSE database_uri

valid_schemes == {<<"postgresql">>, <<"postgres">>, <<"mysql">>, <<"oracle">>,
                  <<"mssql">>, <<"mysql+pymysql">>, <<"postgresql+psycopg2">>,
                  <<"oracle+cx_oracle">>}
localhost_indicators == {<<"localhost">>, <<"127.0.0.1">>, <<"0.0.0.0">>,
                         <<":", ":", "1">>}
postgres_schemes == {<<"postgresql">>, <<"postgres">>, <<"postgresql+psycopg2">>}
postgres_ports == {5432, 5433, 5434, 5435}

\* the PostgreSQL port guard of is_valid_prod_db_url: TRUE when it rejects
PortRejected(parsed) ==
    \/ PortRaises(parsed)
    \/ /\ TruthyPort(port(parsed))
       /\ port(parsed) \notin postgres_ports
       /\ (port(parsed) < 1024 \/ port(parsed) > 65535)

is_valid_prod_db_url(database_uri) ==
    IF ~Truthy(database_uri) THEN FALSE
    ELSE LET parsed == urlparse(database_uri)
         IN  IF parsed.err THEN FALSE
             ELSE IF parsed.scheme = <<"sqlite">> THEN FALSE
             ELSE IF parsed.scheme \notin valid_schemes THEN FALSE
             ELSE IF ~Truthy(hostname(parsed)) THEN FALSE
             ELSE IF Lower(hostname(parsed)) \in localhost_indicators THEN FALSE
             ELSE IF ~Truthy(username(parsed)) \/ ~Truthy(password(parsed)) THEN FALSE
             ELSE IF parsed.path = <<>> \/ parsed.path = <<"/">> THEN FALSE
             ELSE IF parsed.scheme \in postgres_schemes /\ PortRejected(parsed) THEN FALSE
             ELSE TRUE

\* ------------------------------------------------ the inputs of db_utils
\* A connection string scheme://[user[:password]@]host[:port][path][?q][#f]
\* is drawn part by part; the functions get the text only.
SchemeOpts == {<<"postgresql">>, <<"POSTGRESQL">>, <<"mysql">>, <<"sqlite">>, <<"http">>}
CredOpts == {[user |-> NoneVal, pass |-> NoneVal],
             [user |-> <<"user">>, pass |-> NoneVal],
             [user |-> <<"user">>, pass |-> <<"secret">>],
             [user |-> <<>>, pass |-> <<"secret">>],
             [user |-> <<"user">>, pass |-> <<>>]}
HostOpts == {[text |-> <<"prod">>, name |-> <<"prod">>],
             [text |-> <<"PROD">>, name |-> <<"PROD">>],
             [text |-> <<"localhost">>, name |-> <<"localhost">>],
             [text |-> <<"127.0.0.1">>, name |-> <<"127.0.0.1">>],
             [text |-> <<"[", ":", ":", "1", "]">>, name |-> <<":", ":", "1">>],
             [text |-> <<>>, name |-> <<>>]}
PortOpts == {NoneVal, <<"5", "4", "3", "2">>, <<"3", "3", "0", "6">>, <<"8", "0">>,
             <<"0">>, <<"7", "0", "0", "0", "0">>}
PathOpts == {<<>>, <<"/">>, <<"/", "appdb">>}
TailOpts == {[query |-> <<>>, fragment |-> <<>>],
             [query |-> <<"ssl">>, fragment |-> <<>>],
             [query |-> <<>>, fragment |-> <<"frag">>]}
Parts == [scheme : SchemeOpts, cred : CredOpts, host : HostOpts, port : PortOpts,
          path : PathOpts, tail : TailOpts]

CredText(c) ==
    IF c.user = NoneVal THEN <<>>
    ELSE IF c.pass = NoneVal THEN c.user \o <<"@">>
    ELSE c.user \o <<":">> \o c.pass \o <<"@">>
Build(c) ==
    c.scheme \o <<":", "/", "/">> \o CredText(c.cred) \o c.host.text
      \o (IF c.port = NoneVal THEN <<>> ELSE <<":">> \o c.port)
      \o c.path
      \o (IF c.tail.query = <<>> THEN <<>> ELSE <<"?">> \o c.tail.query)
      \o (IF c.tail.fragment = <<>> THEN <<>> ELSE <<"#">> \o c.tail.fragment)

\* absent, empty, not a URI, unbalanced bracket, and the SQLite forms
RawOpts == {NoneVal, <<>>, <<"invalid-url">>,
            <<"postgresql", ":", "/", "/", "user", ":", "secret", "@", "[", "prod", "/", "appdb">>,
            <<"sqlite", ":", "/", "/", "/", ":", "memory", ":">>,
            <<"sqlite", ":", "/", "/", "/", "data", "/", "app.db">>,
            <<"sqlite", ":", "/", "/", "/", "app.db">>}
NoParts == [scheme |-> <<>>, cred |-> [user |-> NoneVal, pass |-> NoneVal],
            host |-> [text |-> <<>>, name |-> <<>>], port |-> NoneVal,
            path |-> <<>>, tail |-> [query |-> <<>>, fragment |-> <<>>]]
UriInputs ==
    {[kind |-> "parts", text |-> Build(c), parts |-> c] : c \in Parts}
      \cup {[kind |-> "raw", text |-> t, parts |-> NoParts] : t \in RawOpts}

\* the same connection string with another user name and another password
OtherCred(c) == [user |-> IF Truthy(c.user) THEN <<"user2">> ELSE c.user,
                 pass |-> IF Truthy(c.pass) THEN <<"secret2">> ELSE c.pass]
AltText(i) == IF i.kind = "parts"
              THEN Build([i.parts EXCEPT !.cred = OtherCred(i.parts.cred)])
              ELSE i.text

CallMask ==
    /\ "mask" \notin called
    /\ called' = called \cup {"mask"}
    /\ masked' = mask_db_uri(uin.text)
    /\ maskedAlt' = mask_db_uri(AltText(uin))
    /\ UNCHANGED <<uin, prodReady, rlVars, upVars, keyVars, svcVars>>

CallValid ==
    /\ "valid" \notin called
    /\ called' = called \cup {"valid"}
    /\ prodReady' = is_valid_prod_db_url(uin.text)
    /\ UNCHANGED <<uin, masked, maskedAlt, rlVars, upVars, keyVars, svcVars>>

InitUri ==
    /\ RLIdle
    /\ UpIdle
    /\ KeyIdle
    /\ SvcIdle
    /\ uin \in UriInputs
    /\ called = {}
    /\ masked = <<>>
    /\ maskedAlt = <<>>
    /\ prodReady = FALSE

NextUri == CallMask \/ CallValid

SpecUri == InitUri /\ [][NextUri]_vars

\* ------------------------------------------------------------------ C9, C10
\* what the parts of a connection string say, read off the parts themselves
HasCred(c) == Truthy(c.cred.user) \/ Truthy(c.cred.pass)
IsNumber(p) == p # <<>> /\ \A j \in DOMAIN p : IsDigit(p[j])
PortOk(c) == c.port = NoneVal \/ (IsNumber(c.port) /\ ToInt(c.port) <= 65535)
\* each credential that is present replaced by the mask token, the rest kept
\* (an empty password counts as absent)
MaskedCred(c) ==
    [user |-> IF Truthy(c.user) THEN MaskToken
              ELSE IF Truthy(c.pass) THEN <<>> ELSE NoneVal,
     pass |-> IF Truthy(c.pass) THEN MaskToken ELSE NoneVal]
ExpectedMask(c) == Build([c EXCEPT !.cred = MaskedCred(c.cred)])

\* C9: for every connection string whose authority carries a username and/or
\* a password, the output of mask_db_uri contains neither of them: each
\* credential that is present is replaced by the mask token while scheme,
\* host, port, path, query and fragment are preserved (up to letter case), and
\* two URIs that differ only in their credentials are masked to the same output.
C9_CredentialsMasked ==
    ( /\ "mask" \in called
      /\ uin.kind = "parts"
      /\ HasCred(uin.parts)
      /\ uin.parts.scheme # <<"sqlite">>
      /\ uin.parts.host.name # <<>>
      /\ PortOk(uin.parts) )
    => /\ \A j \in DOMAIN masked : masked[j] \notin {"user", "secret"}
       /\ Lower(masked) = Lower(ExpectedMask(uin.parts))
       /\ maskedAlt = masked

\* C10: is_valid_prod_db_url(uri) is true exactly when the scheme is a
\* recognised production engine, the hostname is present and no loopback or
\* wildcard address, username and password are present, the database path
\* is present and not just '/', and, for the Postgres family, a port that is
\* present lies within 1024..65535.
ExpectedProd(i) ==
    /\ i.kind = "parts"
    /\ Lower(i.parts.scheme) \in valid_schemes
    /\ i.parts.host.name # <<>>
    /\ Lower(i.parts.host.name) \notin localhost_indicators
    /\ Truthy(i.parts.cred.user)
    /\ Truthy(i.parts.cred.pass)
    /\ i.parts.path \notin {<<>>, <<"/">>}
    /\ Lower(i.parts.scheme) \in postgres_schemes =>
         \/ i.parts.port = NoneVal
         \/ /\ IsNumber(i.parts.port)
            /\ ToInt(i.parts.port) >= 1024
            /\ ToInt(i.parts.port) <= 65535
C10_ValidExactly == "valid" \in called => prodReady = ExpectedProd(uin)

\* ------------------------------------------------- app.py: POST /api/upload
\* create_safe_filename: drop what is not [\w\-_.], keep 100 characters
SafeFilenameChar(c) == c \notin {"/", " ", ":", "@", "?", "#", "[", "]", "+"}
create_safe_filename(filename) ==
    Prefix(SelectSeq(filename, SafeFilenameChar), 100)

allowed_extensions == {<<"txt">>, <<"pdf">>, <<"png">>, <<"jpg">>, <<"jpeg">>,
                       <<"gif">>, <<"doc">>, <<"docx">>, <<"xls">>, <<"xlsx">>}
allowed_file(filename) ==
    Has(filename, ".") /\ Lower(RPartition(filename, ".")[3]) \in allowed_extensions

\* os.path.join(upload_folder, f"{utcnow:%Y%m%d_%H%M%S}_{filename}"): the
\* time stamp has the resolution of one second
UploadPath(t, filename) == <<IntToStr(t), <<"_">>, filename>>

\* the body of the 500 answer of the except clause; the exception text goes
\* to the log only
UploadErrorBodyLeak(exc) == <<"File upload failed", exc>>
UploadErrorBody(exc) == <<"File upload failed">>

\* file.save(path): the file with the bytes written to it
Write(fs, path, bytes) ==
    {f \in fs : f.path # path} \cup {[path |-> path, bytes |-> bytes]}
Stored(fs, path) == \E f \in fs : f.path = path
BytesAt(fs, path) == (CHOOSE f \in fs : f.path = path).bytes

\* the requests: who sends it, what the multipart body holds, and what the
\* environment does to it (size against MAX_CONTENT_LENGTH, disk, database)
Filenames == {<<>>, <<"a", ".", "txt">>, <<"a", "/", ".", "TXT">>,
              <<"b", ".", "pdf">>, <<"a", ".", "exe">>}
Contents == {"B1", "B2"}
GoodRequest == [auth |-> "ok", hasFile |-> TRUE, filename |-> <<"a", ".", "txt">>,
                bytes |-> "B1", tooLarge |-> FALSE, disk |-> "ok", kpiFails |-> FALSE]
Requests ==
    {[GoodRequest EXCEPT !.auth = a] : a \in {"nojwt", "nocompany"}}
      \cup {[GoodRequest EXCEPT !.hasFile = FALSE, !.tooLarge = t] : t \in BOOLEAN}
      \cup {[GoodRequest EXCEPT !.tooLarge = TRUE]}
      \cup {[GoodRequest EXCEPT !.filename = f, !.bytes = b] :
               f \in Filenames, b \in Contents}
      \cup {[GoodRequest EXCEPT !.disk = d] : d \in {"denied", "full"}}
      \cup {[GoodRequest EXCEPT !.kpiFails = TRUE]}

\* the headers of a jsonify(...) response; no handler of app.py adds any other
JsonHeaders == [h \in {"Content-Type"} |-> "application/json"]

\* the handler with its decorators: <<status, body, files written, path, saves>>
file_upload(r, t, fs) ==
    IF r.auth = "nojwt"
    THEN [status |-> 401, body |-> <<"Missing Authorization Header">>,
          files |-> fs, path |-> <<>>, saves |-> 0]
    ELSE IF r.auth = "nocompany"
    THEN [status |-> 400, body |-> <<"Company context required">>,
          files |-> fs, path |-> <<>>, saves |-> 0]
    ELSE IF r.tooLarge      \* request.files raises RequestEntityTooLarge in the try
    THEN [status |-> 500, body |-> UploadErrorBody("413 Request Entity Too Large"),
          files |-> fs, path |-> <<>>, saves |-> 0]
    ELSE IF ~r.hasFile
    THEN [status |-> 400, body |-> <<"No file provided">>,
          files |-> fs, path |-> <<>>, saves |-> 0]
    ELSE IF r.filename = <<>>
    THEN [status |-> 400, body |-> <<"No file selected">>,
          files |-> fs, path |-> <<>>, saves |-> 0]
    ELSE IF ~allowed_file(r.filename)
    THEN [status |-> 400, body |-> <<"File type not allowed">>,
          files |-> fs, path |-> <<>>, saves |-> 0]
    ELSE LET path == UploadPath(t, create_safe_filename(r.filename))
         IN  IF r.disk = "denied"     \* open() raises, nothing is written
             THEN [status |-> 500, body |-> UploadErrorBody("Permission denied"),
                   files |-> fs, path |-> path, saves |-> 1]
             ELSE IF r.disk = "full"  \* write() raises, the file is left cut short
             THEN [status |-> 500, body |-> UploadErrorBody("No space left on device"),
                   files |-> Write(fs, path, "partial"), path |-> path, saves |-> 1]
             ELSE IF r.kpiFails       \* update_user_kpi raises after the save
             THEN [status |-> 500, body |-> UploadErrorBody("database is locked"),
                   files |-> Write(fs, path, r.bytes), path |-> path, saves |-> 1]
             ELSE [status |-> 201, body |-> <<"File uploaded successfully">>,
                   files |-> Write(fs, path, r.bytes), path |-> path, saves |-> 1]

\* One upload request of client k.  The limiter of the rate-limiting design
\* counts the request (CheckCore); file_upload itself never consults it.
UploadRequest(k, r) ==
    LET out == file_upload(r, now, files)
    IN  /\ served < MaxRequests
        /\ CheckCore("upload", k)
        /\ served' = served + 1
        /\ files' = out.files
        /\ uploads' = IF out.status = 201
                      THEN Append(uploads, [path |-> out.path, bytes |-> r.bytes])
                      ELSE uploads
        /\ upLast' = [kind |-> "upload", req |-> r, status |-> out.status,
                      body |-> out.body, headers |-> JsonHeaders,
                      path |-> out.path, saves |-> out.saves,
                      wrote |-> out.files # files]
        /\ UNCHANGED <<uriVars, keyVars, svcVars>>

InitUpload == RLIdle /\ UriIdle /\ UpIdle /\ KeyIdle /\ SvcIdle

\* the client whose uploads SpecUpload follows
UClient == "1.1.1.1"

TickUpload == TickTo(MaxUploadTime)

NextUpload ==
    \/ \E r \in Requests : UploadRequest(UClient, r)
    \/ TickUpload

SpecUpload == InitUpload /\ [][NextUpload]_vars

\* ------------------------------------------------------------------ C4..C7
\* In SpecUpload rlLast is the verdict of the upload limiter on the request
\* that upLast answers.

\* C4: the upload rate limiter comes before every other step of an upload:
\* an (authenticated) request the limiter denies is answered 429 with
\* remaining 0 whatever it carries, the save is not invoked for it and it is
\* never answered 500.
C4_LimiterFirst ==
    ( /\ upLast.kind = "upload"
      /\ upLast.req.auth = "ok"
      /\ ~rlLast.allowed )
    => /\ upLast.status = 429
       /\ rlLast.remaining = 0
       /\ upLast.saves = 0
       /\ upLast.status # 500

\* C5: an upload that passes the limiter but has no file part or an empty
\* filename is answered 400, one whose content length exceeds the configured
\* maximum is answered 413, and in each of these cases nothing is written.
C5_ValidationAnswers ==
    ( /\ upLast.kind = "upload"
      /\ upLast.req.auth = "ok"
      /\ rlLast.allowed )
    => /\ (~upLast.req.tooLarge /\ (~upLast.req.hasFile \/ upLast.req.filename = <<>>))
            => upLast.status = 400
       /\ upLast.req.tooLarge => upLast.status = 413
       /\ (upLast.req.tooLarge \/ ~upLast.req.hasFile \/ upLast.req.filename = <<>>)
            => (~upLast.wrote /\ upLast.saves = 0)

C7_NoOverwrite ==
    \A i \in DOMAIN uploads :
      /\ Stored(files, uploads[i].path)
      /\ BytesAt(files, uploads[i].path) = uploads[i].bytes
      /\ \A j \in 1..(i - 1) : uploads[j].path # uploads[i].path

\* --------------------------------------------- storage.py: the storage key
KeyChars == {"a", ".", "/", "_", " ", "~"}
FilenameAsciiChars == {"a", ".", "_", "-"}      \* [A-Za-z0-9_.-]

\* str.strip(chars)
RECURSIVE LStrip(_, _)
LStrip(s, chars) == IF s # <<>> /\ s[1] \in chars THEN LStrip(Tail(s), chars) ELSE s
RECURSIVE RStrip(_, _)
RStrip(s, chars) == IF s # <<>> /\ s[Len(s)] \in chars
                    THEN RStrip(SubSeq(s, 1, Len(s) - 1), chars) ELSE s
Strip(s, chars) == RStrip(LStrip(s, chars), chars)

\* "_".join(s.split()): runs of white space become one "_", none at the ends
JoinSplit(s) ==
    LET t == Strip(s, {" "})
        keep == {i \in DOMAIN t : ~(t[i] = " " /\ t[i - 1] = " ")}
        Nth(n) == CHOOSE i \in keep : Cardinality({j \in keep : j < i}) = n - 1
    IN  [n \in 1..Cardinality(keep) |-> IF t[Nth(n)] = " " THEN "_" ELSE t[Nth(n)]]

\* werkzeug.utils.secure_filename on a POSIX system
secure_filename(filename) ==
    LET seps == [i \in DOMAIN filename |-> IF filename[i] = "/" THEN " " ELSE filename[i]]
        ascii == SelectSeq(JoinSplit(seps), LAMBDA c : c \in FilenameAsciiChars)
    IN  Strip(ascii, {".", "_"})

\* filename = secure_filename(filename); if not filename: filename = 'upload'
StoredName(filename) ==
    IF secure_filename(filename) = <<>> THEN <<"upload">> ELSE secure_filename(filename)

\* the n-th name save_file tries: filename, base_1.ext, base_2.ext, ...
\* (os.path.splitext: the extension starts at the last dot)
ConflictName(name, n) ==
    LET dot == RFind(name, ".")
        base == IF dot = 0 THEN name ELSE Before(name, dot)
        ext == IF dot = 0 THEN <<>> ELSE SubSeq(name, dot, Len(name))
    IN  IF n = 0 THEN name ELSE base \o <<"_">> \o IntToStr(n) \o ext

\* LocalStorageBackend.save_file: the relative path returned, when the first
\* `taken` names it tries exist already
LocalKey(filename, folder, taken) ==
    LET name == ConflictName(StoredName(filename), taken)
    IN  IF Truthy(folder) /\ secure_filename(folder) # <<>>
        THEN secure_filename(folder) \o <<"/">> \o name
        ELSE name

\* DigitalOceanSpacesBackend.save_file: the object key
SpacesKey(filename, folder) ==
    IF Truthy(folder)
    THEN secure_filename(folder) \o <<"/">> \o StoredName(filename)
    ELSE StoredName(filename)

\* all strings over KeyChars of at most n characters
RECURSIVE Strings(_)
Strings(n) ==
    IF n = 0 THEN {<<>>}
    ELSE Strings(n - 1) \cup {Append(x, c) : x \in Strings(n - 1), c \in KeyChars}

SaveInputs ==
    [backend : {"local", "spaces"}, filename : Strings(MaxNameLen),
     folder : Strings(MaxNameLen) \cup {NoneVal}, taken : 0..MaxTaken]

save_file ==
    /\ kout = None
    /\ kout' = [kind |-> "key",
                key |-> IF kin.backend = "local"
                        THEN LocalKey(kin.filename, kin.folder, kin.taken)
                        ELSE SpacesKey(kin.filename, kin.folder)]
    /\ UNCHANGED <<kin, rlVars, uriVars, upVars, svcVars>>

InitKey ==
    /\ RLIdle /\ UriIdle /\ UpIdle /\ SvcIdle
    /\ kin \in {i \in SaveInputs : i.backend = "spaces" => i.taken = 0}
    /\ kout = None

NextKey == save_file

SpecKey == InitKey /\ [][NextKey]_vars

\* ------------------------------------------------------------------ C8
\* the segments of a key, split at "/"
RECURSIVE Segments(_)
Segments(key) ==
    LET p == Partition(key, "/")
    IN  IF p[2] THEN {p[1]} \cup Segments(p[3]) ELSE {key}

\* C8: for every filename and every folder the key under which an upload
\* is saved contains no ".." segment and does not start with "/"; a folder
\* that is empty or entirely invalid leaves a key without prefix.
C8_KeyIsSafe ==
    kout.kind = "key" =>
      /\ <<".", ".">> \notin Segments(kout.key)
      /\ kout.key # <<>> /\ kout.key[1] # "/"
      /\ (~Truthy(kin.folder) \/ secure_filename(kin.folder) = <<>>)
           => ~Has(kout.key, "/")

\* ------------------------------------- storage.py: create_storage_backend
EnvNames == {"DO_SPACES_KEY", "DO_SPACES_SECRET", "DO_SPACES_BUCKET",
             "DO_SPACES_REGION", "UPLOAD_FOLDER"}
\* the variables create_storage_backend tests before it chooses 'spaces'
SpacesEnv == {"DO_SPACES_KEY", "DO_SPACES_SECRET", "DO_SPACES_BUCKET"}
BackendTypes == {"auto", "local", "spaces", "ftp"}     \* "auto" is backend_type=None

NoError == "none"

\* LocalStorageBackend.__init__: os.makedirs(uploads_folder, exist_ok=True)
LocalStorageBackend(e, ok) ==
    IF ok
    THEN [kind |-> "local", raised |-> NoError, client |-> FALSE]
    ELSE [kind |-> "none", raised |-> "PermissionError", client |-> FALSE]

\* DigitalOceanSpacesBackend.__init__ as the factory calls it, without
\* arguments: the client is built only when key, secret and bucket are set
DigitalOceanSpacesBackend(e, lib) ==
    IF ~(SpacesEnv \subseteq e)
    THEN [kind |-> "spaces", raised |-> NoError, client |-> FALSE]
    ELSE IF lib = "missing"      \* import boto3 fails, ImportError is raised again
    THEN [kind |-> "none", raised |-> "ImportError", client |-> FALSE]
    ELSE IF lib = "fails"        \* boto3.client(...) raises, nothing catches it
    THEN [kind |-> "none", raised |-> "ValueError", client |-> FALSE]
    ELSE [kind |-> "spaces", raised |-> NoError, client |-> TRUE]

create_storage_backend(backend_type, e, lib, ok) ==
    LET chosen == IF backend_type = "auto"
                  THEN IF SpacesEnv \subseteq e THEN "spaces" ELSE "local"
                  ELSE backend_type
    IN  IF chosen = "local" THEN LocalStorageBackend(e, ok)
        ELSE IF chosen = "spaces" THEN DigitalOceanSpacesBackend(e, lib)
        ELSE [kind |-> "none", raised |-> "ValueError", client |-> FALSE]

CreateBackend(backend_type) ==
    /\ facLast' = [kind |-> "create", backend_type |-> backend_type,
                   backend |-> create_storage_backend(backend_type, env, boto3, folderOk)]
    /\ UNCHANGED <<env, boto3, folderOk, coreVars, appVars, hlVars, thVars, wkVars, stVars>>

InitFactory ==
    /\ CoreIdle
    /\ HlIdle
    /\ ThIdle /\ AppIdle
    /\ WkIdle
    /\ StIdle
    /\ env \in SUBSET EnvNames
    /\ boto3 \in {"ok", "missing", "fails"}
    /\ folderOk \in BOOLEAN
    /\ facLast = None

NextFactory == \E bt \in BackendTypes : CreateBackend(bt)

SpecFactory == InitFactory /\ [][NextFactory]_vars

\* ------------------------------------------------------------------ C11
\* C11: create_storage_backend with auto-detection never raises; it returns
\* the object-store backend only when every required object-store variable
\* is set and its construction succeeds, and the local backend in every
\* other case, also when the construction of the object-store backend fails
\* (stated for a process that can create its local uploads folder).
C11_FactoryFallsBack ==
    (facLast.kind = "create" /\ facLast.backend_type = "auto" /\ folderOk) =>
      /\ facLast.backend.raised = NoError
      /\ facLast.backend.kind =
           (IF SpacesEnv \subseteq env /\ boto3 = "ok" THEN "spaces" ELSE "local")

\* ------------------------------------------------- app.py: health_check
\* the JSON body of health_check; there is no database field, nothing is probed
HealthBody(t) ==
    [status |-> "ok", env |-> "development", version |-> "2.0", timestamp |-> t]

health_check(t) == [status |-> 200, body |-> HealthBody(t)]

\* One request of client k to the health endpoint.  The health limiter of
\* the rate-limiting design counts it (CheckCore); health_check never
\* consults a limiter or the database.
HealthRequest(k) ==
    /\ CheckCore("health", k)
    /\ hLast' = [kind |-> "health", status |-> health_check(now).status,
                 body |-> health_check(now).body, headers |-> JsonHeaders,
                 dbUp |-> dbUp]
    /\ UNCHANGED <<dbUp, uriVars, upVars, keyVars, facVars, appVars, thVars, wkVars, stVars>>

\* the database goes down or comes back
DbFlip ==
    /\ dbUp' = ~dbUp
    /\ UNCHANGED <<hLast, coreVars, facVars, appVars, thVars, wkVars, stVars>>

InitHealth ==
    /\ CoreIdle
    /\ FacIdle
    /\ ThIdle /\ AppIdle
    /\ WkIdle
    /\ StIdle
    /\ dbUp \in BOOLEAN
    /\ hLast = None

NextHealth == HealthRequest(UClient) \/ DbFlip \/ Tick

SpecHealth == InitHealth /\ [][NextHealth]_vars

\* ------------------------------------------------------------------ C12
\* C12: the health endpoint answers 200 with a JSON body in every case but
\* rate-limit overflow, never 500 or 503; the body reports status degraded
\* and database down when the database probe fails, status ok and database
\* up when it succeeds.
C12_HealthAlways200 ==
    hLast.kind = "health" =>
      /\ hLast.status \notin {500, 503}
      /\ rlLast.allowed =>
           /\ hLast.status = 200
           /\ "database" \in DOMAIN hLast.body
           /\ hLast.dbUp => (hLast.body.status = "ok" /\ hLast.body.database = "up")
           /\ ~hLast.dbUp => (hLast.body.status = "degraded" /\ hLast.body.database = "down")

\* ------------------------------------------------------------------ C13
RateLimitHeaders == {"X-RateLimit-Limit", "X-RateLimit-Remaining", "X-RateLimit-Reset"}

\* the response carries the three rate-limit headers, the limit being that
\* of limiter l
CarriesRateLimit(headers, l) ==
    /\ RateLimitHeaders \subseteq DOMAIN headers
    /\ headers["X-RateLimit-Limit"] = Limit(l)

\* C13: every response of a rate-limited endpoint (health and upload),
\* whatever its status, carries X-RateLimit-Limit, X-RateLimit-Remaining
\* and X-RateLimit-Reset, the first equal to the configured maximum of the
\* endpoint's limiter.
C13_HeadersOnEveryResponse ==
    /\ upLast.kind = "upload" => CarriesRateLimit(upLast.headers, "upload")
    /\ hLast.kind = "health" => CarriesRateLimit(hLast.headers, "health")

\* ------------------------------------------------------------------ C14
\* C14: for every allowed check, remaining = limit minus the number of
\* checks, this one included, counted for the key in its current window:
\* limit - 1 for the first call of a fresh window, 0 for the limit-th call,
\* which is still allowed; remaining is never negative.
C14_RemainingIsLimitMinusCount ==
    rlLast.kind = "check" =>
      LET l == rlLast.limiter
          n == Cardinality(InWindow(l, rlLast.key))
      IN  /\ rlLast.remaining >= 0
          /\ rlLast.allowed => rlLast.remaining = Limit(l) - n
          /\ n = 1 => (rlLast.allowed /\ rlLast.remaining = Limit(l) - 1)
          /\ n = Limit(l) => (rlLast.allowed /\ rlLast.remaining = 0)

\* the limit-th call of a window that followed an expired one
C14_Witness ==
    /\ rlLast.kind = "check" /\ rlLast.allowed /\ rlLast.remaining = 0
    /\ Cardinality(InWindow(rlLast.limiter, rlLast.key)) = Limit(rlLast.limiter)
    /\ Len(rlLog[rlLast.limiter][rlLast.key]) = Limit(rlLast.limiter)
    /\ hits[rlLast.limiter][rlLast.key].start > 0

\* ------------------------------------- the two named limiters, one client
InitLimiters == CoreIdle /\ SvcIdle

\* the clock runs until one window has passed
TickLimiters == TickTo(WindowSeconds + 1)

NextLimiters == (\E l \in Limiters : Check(l, UClient)) \/ TickLimiters

SpecLimiters == InitLimiters /\ [][NextLimiters]_vars

\* ------------------------------------------------------------------ C15
\* C15: the upload limiter and the health limiter keep separate per-client
\* state: a request counted by one limiter, also one beyond its limit,
\* changes nothing of the client's entry in the other limiter, so each
\* limiter's counter is the number of requests to its own endpoint in the
\* client's current window of that limiter.
C15_LimitersIndependent ==
    /\ [][\A l \in Limiters : \A m \in Limiters \ {l} :
            (rlLast' # rlLast /\ rlLast'.limiter = l) =>
               hits'[m][UClient] = hits[m][UClient]]_vars
    /\ [](\A l \in Limiters :
            hits[l][UClient] # NoEntry =>
               hits[l][UClient].count = Cardinality(InWindow(l, UClient)))

\* the first health request of a client that is over its upload limit
C15_Witness ==
    /\ rlLast.kind = "check" /\ rlLast.limiter = "health" /\ rlLast.prev = NoEntry
    /\ rlLast.allowed /\ rlLast.remaining = Limit("health") - 1
    /\ hits["upload"][UClient].count > Limit("upload")
    /\ now - hits["upload"][UClient].start < Window("upload")

\* --------------------------- the rate-limiter check run by worker threads
\* check() of the upload limiter for one client key, as the steps of a
\* worker thread: take the mutex of the map, read the key's entry, write
\* the incremented entry and answer, give the mutex back.
CanAcquireMut(lk) == TRUE                   \* no mutex
CanAcquire(lk) == lk = NoThread

ThreadFrame ==
    UNCHANGED <<now, rlLast, uriVars, upVars, keyVars, facVars, appVars, hlVars, wkVars, stVars>>

ThreadAcquire(t) ==
    /\ tpc[t] = "idle"
    /\ CanAcquire(lock)
    /\ lock' = t
    /\ tpc' = [tpc EXCEPT ![t] = "read"]
    /\ UNCHANGED <<tloc, hits, rlLog>>
    /\ ThreadFrame

ThreadRead(t) ==
    LET base == WindowEntry(hits[RLimiter][UClient], Window(RLimiter), now)
    IN  /\ tpc[t] = "read"
        /\ base.count + 1 <= Limit(RLimiter) + 1
        /\ tloc' = [tloc EXCEPT ![t] = [kind |-> "entry", base |-> base, at |-> now]]
        /\ tpc' = [tpc EXCEPT ![t] = "write"]
        /\ UNCHANGED <<lock, hits, rlLog>>
        /\ ThreadFrame

ThreadWrite(t) ==
    LET base == tloc[t].base
        cnt == base.count + 1
    IN  /\ tpc[t] = "write"
        /\ hits' = Store(hits, RLimiter, UClient, [count |-> cnt, start |-> base.start])
        /\ rlLog' = [rlLog EXCEPT ![RLimiter][UClient] =
                        Append(Recent(@, Window(RLimiter), tloc[t].at),
                               [at |-> tloc[t].at, allowed |-> Allowed(cnt, Limit(RLimiter)),
                                by |-> t])]
        /\ tpc' = [tpc EXCEPT ![t] = "release"]
        /\ UNCHANGED <<lock, tloc>>
        /\ ThreadFrame

ThreadRelease(t) ==
    /\ tpc[t] = "release"
    /\ lock' = IF lock = t THEN NoThread ELSE lock
    /\ tpc' = [tpc EXCEPT ![t] = "idle"]
    /\ tloc' = [tloc EXCEPT ![t] = None]
    /\ UNCHANGED <<hits, rlLog>>
    /\ ThreadFrame

\* the clock, while threads are running
ThreadTick ==
    /\ now < WindowSeconds + 1
    /\ now' = now + 1
    /\ UNCHANGED <<hits, rlLog, rlLast, appVars, thVars, uriVars, upVars, keyVars, facVars, hlVars,
                   wkVars, stVars>>

InitThreads == CoreIdle /\ SvcIdle

NextThreads ==
    \/ \E t \in Threads :
          ThreadAcquire(t) \/ ThreadRead(t) \/ ThreadWrite(t) \/ ThreadRelease(t)
    \/ ThreadTick

SpecThreads == InitThreads /\ [][NextThreads]_vars

\* ------------------------------------------------------------------ C16
\* C16: when several worker threads run check concurrently for one client
\* key no increment is lost: under every interleaving the key's counter is
\* the number of calls answered in its current window, and at most `limit`
\* of them are answered allowed=true.
C16_NoLostIncrement ==
    hits[RLimiter][UClient] # NoEntry =>
      /\ hits[RLimiter][UClient].count = Cardinality(InWindow(RLimiter, UClient))
      /\ Cardinality({i \in InWindow(RLimiter, UClient) :
                         rlLog[RLimiter][UClient][i].allowed}) <= Limit(RLimiter)

\* two threads have shared one window, the limit is used up, a call was
\* denied, and another thread waits for the mutex
C16_Witness ==
    /\ hits[RLimiter][UClient].count > Limit(RLimiter)
    /\ \E i, j \in InWindow(RLimiter, UClient) :
          rlLog[RLimiter][UClient][i].by # rlLog[RLimiter][UClient][j].by
    /\ \E t \in Threads : lock = t /\ tpc[t] = "release"
    /\ \E u \in Threads : lock # u /\ tpc[u] = "idle"

\* ------------------------------------ uploads handled by concurrent workers
\* Two workers each handle one upload.  On the "endpoint" route they run
\* the save of file_upload (app.py): build the path from the clock and the
\* sanitized filename, then write.  On the "backend" route they run
\* LocalStorageBackend.save_file: try filename, base_1.ext, ... until a name
\* does not exist, then write.  Nothing makes the steps of one worker atomic.
WorkerNames(r) ==
    IF r = "endpoint" THEN {<<"a", ".", "txt">>, <<"b", ".", "pdf">>}
                      ELSE {<<"a", ".", "a">>, <<"a">>}
WorkerBytes(w) == IF w = "w1" THEN "B1" ELSE "B2"

WorkerFrame ==
    UNCHANGED <<route, now, hits, rlLog, rlLast, upLast, served,
                uriVars, keyVars, facVars, appVars, hlVars, thVars, stVars>>

WorkerStart(w, name) ==
    /\ wk[w].pc = "idle"
    /\ wk' = [wk EXCEPT ![w] = [pc |-> "path", name |-> name, n |-> 0, path |-> <<>>]]
    /\ UNCHANGED <<files, uploads>>
    /\ WorkerFrame

\* file_path = os.path.join(upload_folder, f"{utcnow:%Y%m%d_%H%M%S}_{filename}")
WorkerPath(w) ==
    /\ route = "endpoint"
    /\ wk[w].pc = "path"
    /\ wk' = [wk EXCEPT ![w].pc = "write",
                        ![w].path = UploadPath(now, create_safe_filename(wk[w].name))]
    /\ UNCHANGED <<files, uploads>>
    /\ WorkerFrame

\* while os.path.exists(file_path): take the next name
WorkerExists(w) ==
    LET candidate == ConflictName(StoredName(wk[w].name), wk[w].n)
    IN  /\ route = "backend"
        /\ wk[w].pc = "path"
        /\ wk' = IF Stored(files, candidate)
                 THEN [wk EXCEPT ![w].n = @ + 1]
                 ELSE [wk EXCEPT ![w].pc = "write", ![w].path = candidate]
        /\ UNCHANGED <<files, uploads>>
        /\ WorkerFrame

\* file.save(file_path)
WorkerSave(w) ==
    /\ wk[w].pc = "write"
    /\ files' = Write(files, wk[w].path, WorkerBytes(w))
    /\ uploads' = Append(uploads, [path |-> wk[w].path, bytes |-> WorkerBytes(w)])
    /\ wk' = [wk EXCEPT ![w].pc = "done"]
    /\ WorkerFrame

WorkerTick ==
    /\ now < MaxUploadTime
    /\ now' = now + 1
    /\ UNCHANGED <<hits, rlLog, rlLast, uriVars, upVars, keyVars, facVars, hlVars,
                   appVars, thVars, wkVars, stVars>>

InitWorkers ==
    /\ CoreIdle /\ FacIdle /\ HlIdle /\ ThIdle /\ AppIdle /\ StIdle
    /\ route \in {"endpoint", "backend"}
    /\ wk = [w \in Workers |-> [pc |-> "idle"]]

NextWorkers ==
    \/ \E w \in Workers :
          \/ \E name \in WorkerNames(route) : WorkerStart(w, name)
          \/ WorkerPath(w)
          \/ WorkerExists(w)
          \/ WorkerSave(w)
    \/ WorkerTick

SpecWorkers == InitWorkers /\ [][NextWorkers]_vars

\* ------------------------------------------------------------------ C17
\* C17: two uploads handled concurrently by different workers never
\* interfere: under every interleaving of their steps they are stored under
\* different keys and each worker's file holds that worker's bytes, also
\* when both carry the same filename.
C17_ConcurrentUploadsApart ==
    \A w \in Workers : \A v \in Workers \ {w} :
      (wk[w].pc = "done" /\ wk[v].pc = "done") =>
        /\ wk[w].path # wk[v].path
        /\ Stored(files, wk[w].path)
        /\ BytesAt(files, wk[w].path) = WorkerBytes(w)

\* ------------------------------------------- storage.py: the local backend
\* str.split(sep) and sep.join(parts)
RECURSIVE Split(_, _)
Split(s, c) ==
    IF ~Has(s, c) THEN <<s>>
    ELSE <<Before(s, Find(s, c))>> \o Split(After(s, Find(s, c)), c)
RECURSIVE Join(_, _)
Join(parts, c) ==
    IF parts = <<>> THEN <<>>
    ELSE IF Len(parts) = 1 THEN parts[1]
    ELSE parts[1] \o <<c>> \o Join(Tail(parts), c)

\* urljoin: the loop that resolves "." and ".." segments
RECURSIVE ResolveDots(_, _)
ResolveDots(segments, resolved) ==
    IF segments = <<>> THEN resolved
    ELSE LET seg == Head(segments)
         IN  IF seg = <<".", ".">>
             THEN ResolveDots(Tail(segments),
                              IF resolved = <<>> THEN resolved
                              ELSE SubSeq(resolved, 1, Len(resolved) - 1))
             ELSE IF seg = <<".">> THEN ResolveDots(Tail(segments), resolved)
             ELSE ResolveDots(Tail(segments), Append(resolved, seg))

\* urllib.parse.urljoin(base, url) for a base that is a path ending in "/"
\* and a url without scheme, authority, query or fragment
urljoin(base, url) ==
    IF url = <<>> THEN base
    ELSE LET base_parts == Split(base, "/")
             all == IF url[1] = "/" THEN Split(url, "/")
                    ELSE base_parts \o Split(url, "/")
             inner == SelectSeq(SubSeq(all, 2, Len(all) - 1), LAMBDA x : x # <<>>)
             segments == IF url[1] = "/" THEN all
                         ELSE <<all[1]>> \o inner \o <<all[Len(all)]>>
             resolved == ResolveDots(segments, <<>>)
             closed == IF segments[Len(segments)] \in {<<".">>, <<".", ".">>}
                       THEN Append(resolved, <<>>) ELSE resolved
         IN  IF Join(closed, "/") = <<>> THEN <<"/">> ELSE Join(closed, "/")

\* LocalStorageBackend(uploads_folder='uploads', base_url='/uploads/')
base_url == <<"/", "uploads", "/">>

\* LocalStorageBackend.get_url
get_url(path) == urljoin(base_url, path)

\* os.path.exists below the uploads folder: a file or a directory
Exists(fs, ds, path) == Stored(fs, path) \/ path \in ds

\* the number of names the conflict loop of save_file finds taken
TakenNames(fs, ds, filename, folder) ==
    CHOOSE n \in 0..(Cardinality(fs) + Cardinality(ds)) :
      /\ ~Exists(fs, ds, LocalKey(filename, folder, n))
      /\ \A m \in 0..(n - 1) : Exists(fs, ds, LocalKey(filename, folder, m))

\* LocalStorageBackend.save_file(file, filename, folder) on the files fs and
\* directories ds, with a device that is "ok" or "full"
LocalSave(fs, ds, filename, folder, bytes, device) ==
    LET sub == IF Truthy(folder) THEN secure_filename(folder) ELSE <<>>
        ds2 == IF sub = <<>> THEN ds ELSE ds \cup {sub}
        path == LocalKey(filename, folder, TakenNames(fs, ds2, filename, folder))
    IN  IF sub # <<>> /\ Stored(fs, sub)          \* os.makedirs on a file
        THEN [raised |-> "FileExistsError", ret |-> <<>>, disk |-> fs, dirs |-> ds]
        ELSE IF device = "full"                    \* the write fails part way
        THEN [raised |-> "OSError", ret |-> <<>>,
              disk |-> Write(fs, path, "partial"), dirs |-> ds2]
        ELSE [raised |-> NoError, ret |-> path,
              disk |-> Write(fs, path, bytes), dirs |-> ds2]

\* LocalStorageBackend.delete_file(path); the empty path is the uploads folder
LocalDelete(fs, ds, path) ==
    IF Stored(fs, path)
    THEN [raised |-> NoError, ret |-> TRUE, disk |-> {f \in fs : f.path # path}]
    ELSE IF path \in ds \/ path = <<>>             \* os.remove on a directory
    THEN [raised |-> "IsADirectoryError", ret |-> FALSE, disk |-> fs]
    ELSE [raised |-> NoError, ret |-> FALSE, disk |-> fs]

\* the arguments of the calls
StoreNames == {<<"a">>, <<"a", ".", "a">>, <<"a", "/", "a">>}
StoreFolders == {NoneVal, <<"a">>}
DeletePaths == StoreNames \cup {<<>>, <<"a", "_", "a">>, <<"a", "_", "1">>}

StoreFrame == UNCHANGED <<coreVars, facVars, appVars, hlVars, thVars, wkVars>>

LocalSaveCall(filename, folder, bytes, device) ==
    LET out == LocalSave(disk, dirs, filename, folder, bytes, device)
    IN  /\ stOps < MaxOps
        /\ stOps' = stOps + 1
        /\ disk' = out.disk
        /\ dirs' = out.dirs
        /\ stLast' = [kind |-> "local_save", filename |-> filename, folder |-> folder,
                      bytes |-> bytes, raised |-> out.raised, ret |-> out.ret,
                      was |-> Exists(disk, dirs, filename)]
        /\ UNCHANGED <<bucket, client>>
        /\ StoreFrame

LocalDeleteCall(path) ==
    LET out == LocalDelete(disk, dirs, path)
    IN  /\ stOps < MaxOps
        /\ stOps' = stOps + 1
        /\ disk' = out.disk
        /\ stLast' = [kind |-> "local_delete", path |-> path, raised |-> out.raised,
                      ret |-> out.ret, was |-> Stored(disk, path)]
        /\ UNCHANGED <<dirs, bucket, client>>
        /\ StoreFrame

InitLocal == CoreIdle /\ SvcIdle

NextLocal ==
    \/ \E filename \in StoreNames, folder \in StoreFolders, bytes \in Contents,
          device \in {"ok", "full"} : LocalSaveCall(filename, folder, bytes, device)
    \/ \E path \in DeletePaths : LocalDeleteCall(path)

SpecLocal == InitLocal /\ [][NextLocal]_vars

\* ------------------------------------------------------------------ C18
\* sub occurs in s
Contains(s, sub) ==
    \E i \in 1..(Len(s) - Len(sub) + 1) : SubSeq(s, i, i + Len(sub) - 1) = sub

\* the key a save is asked to store under: the name, below the folder if any
RequestedKey(call) ==
    IF Truthy(call.folder) THEN call.folder \o <<"/">> \o call.filename
    ELSE call.filename

\* the directories on the way to key
ParentDirs(key) ==
    {Join(SubSeq(Split(key, "/"), 1, n), "/") : n \in 1..(Len(Split(key, "/")) - 1)}

\* C18: local backend round trip: a save of bytes B under key K that
\* succeeds creates the missing intermediate directories, returns K
\* unchanged, and afterwards the file at <base directory>/K holds exactly B
\* and the URL of K contains K.
C18_LocalRoundTrip ==
    (stLast.kind = "local_save" /\ stLast.raised = NoError) =>
      LET K == RequestedKey(stLast)
      IN  /\ stLast.ret = K
          /\ ParentDirs(K) \subseteq dirs
          /\ Stored(disk, K)
          /\ BytesAt(disk, K) = stLast.bytes
          /\ Contains(get_url(K), K)

\* ------------------------------------------------------------------ C19
\* C19: local delete(K) returns true exactly when a file existed at K, and
\* then the file is gone; it returns false without raising when no file
\* exists at K.
C19_LocalDeleteReports ==
    stLast.kind = "local_delete" =>
      /\ stLast.raised = NoError
      /\ stLast.ret = stLast.was
      /\ ~Stored(disk, stLast.path)

\* ------------------------------------------ storage.py: the Spaces backend
\* what the object store does to a call: it completes, or the transport,
\* the authentication or the configuration (bucket, endpoint) fails
Outcomes == {"ok", "EndpointConnectionError", "AccessDenied", "NoSuchBucket"}

\* DigitalOceanSpacesBackend.save_file on the objects bk
SpacesSave(cl, bk, filename, folder, bytes, outcome) ==
    IF ~cl THEN [raised |-> "RuntimeError", ret |-> <<>>, bucket |-> bk]
    ELSE IF outcome # "ok" THEN [raised |-> outcome, ret |-> <<>>, bucket |-> bk]
    ELSE [raised |-> NoError, ret |-> SpacesKey(filename, folder),
          bucket |-> Write(bk, SpacesKey(filename, folder), bytes)]

\* DigitalOceanSpacesBackend.delete_file
SpacesDeleteRaises(cl, bk, path, outcome) ==        \* without the try
    IF ~cl THEN [raised |-> NoError, ret |-> FALSE, issued |-> FALSE, bucket |-> bk]
    ELSE IF outcome = "ok"
    THEN [raised |-> NoError, ret |-> TRUE, issued |-> TRUE,
          bucket |-> {o \in bk : o.path # path}]
    ELSE [raised |-> outcome, ret |-> FALSE, issued |-> TRUE, bucket |-> bk]
SpacesDelete(cl, bk, path, outcome) ==
    IF ~cl THEN [raised |-> NoError, ret |-> FALSE, issued |-> FALSE, bucket |-> bk]
    ELSE IF outcome = "ok"
    THEN [raised |-> NoError, ret |-> TRUE, issued |-> TRUE,
          bucket |-> {o \in bk : o.path # path}]
    ELSE [raised |-> NoError, ret |-> FALSE, issued |-> TRUE, bucket |-> bk]

SpacesSaveCall(filename, folder, bytes, outcome) ==
    LET out == SpacesSave(client, bucket, filename, folder, bytes, outcome)
    IN  /\ stOps < MaxOps
        /\ stOps' = stOps + 1
        /\ bucket' = out.bucket
        /\ stLast' = [kind |-> "spaces_save", filename |-> filename, folder |-> folder,
                      bytes |-> bytes, outcome |-> outcome,
                      raised |-> out.raised, ret |-> out.ret]
        /\ UNCHANGED <<disk, dirs, client>>
        /\ StoreFrame

SpacesDeleteCall(path, outcome) ==
    LET out == SpacesDelete(client, bucket, path, outcome)
    IN  /\ stOps < MaxOps
        /\ stOps' = stOps + 1
        /\ bucket' = out.bucket
        /\ stLast' = [kind |-> "spaces_delete", path |-> path, outcome |-> outcome,
                      raised |-> out.raised, ret |-> out.ret, issued |-> out.issued,
                      was |-> Stored(bucket, path)]
        /\ UNCHANGED <<disk, dirs, client>>
        /\ StoreFrame

InitSpaces ==
    /\ CoreIdle /\ FacIdle /\ HlIdle /\ ThIdle /\ AppIdle /\ WkIdle
    /\ disk = {} /\ dirs = {} /\ bucket = {}
    /\ client \in BOOLEAN
    /\ stLast = None
    /\ stOps = 0

NextSpaces ==
    \/ \E filename \in StoreNames, folder \in StoreFolders, bytes \in Contents,
          outcome \in Outcomes : SpacesSaveCall(filename, folder, bytes, outcome)
    \/ \E path \in DeletePaths, outcome \in Outcomes : SpacesDeleteCall(path, outcome)

SpecSpaces == InitSpaces /\ [][NextSpaces]_vars

\* ------------------------------------------------------------------ C20
\* C20: the object-store delete never raises: every transport,
\* authentication or configuration failure is returned as false, and true
\* is returned only when the delete call was issued and completed.
C20_SpacesDeleteNeverRaises ==
    stLast.kind = "spaces_delete" =>
      /\ stLast.raised = NoError
      /\ (~client \/ stLast.outcome # "ok") => stLast.ret = FALSE
      /\ stLast.ret = TRUE => (stLast.issued /\ stLast.outcome = "ok"
                                 /\ ~Stored(bucket, stLast.path))

\* the delete of an object that exists is refused by the object store
C20_Witness ==
    /\ stLast.kind = "spaces_delete" /\ client
    /\ stLast.outcome = "AccessDenied" /\ stLast.was
    /\ stLast.ret = FALSE /\ stLast.issued
    /\ Stored(bucket, stLast.path)


\* ------------------- storage.py: DigitalOceanSpacesBackend, construct then use
\* the settings the object-store backend reads from the environment (the
\* endpoint is derived from the region; it has no variable of its own)
RequiredSettings == SpacesEnv \cup {"DO_SPACES_REGION"}

\* DigitalOceanSpacesBackend() : __init__ runs, the instance keeps self.client
ConstructSpaces ==
    LET b == DigitalOceanSpacesBackend(env, boto3)
    IN  /\ facLast = None
        /\ facLast' = [kind |-> "construct", backend |-> b]
        /\ client' = b.client
        /\ UNCHANGED <<env, boto3, folderOk, disk, dirs, bucket, stLast, stOps>>
        /\ UNCHANGED <<coreVars, appVars, hlVars, thVars, wkVars>>

\* save_file on the instance that __init__ returned
ConstructedSave(bytes, outcome) ==
    /\ facLast.kind = "construct"
    /\ facLast.backend.kind = "spaces"
    /\ SpacesSaveCall(<<"a">>, NoneVal, bytes, outcome)

InitConstruct ==
    /\ CoreIdle /\ HlIdle /\ ThIdle /\ AppIdle /\ WkIdle /\ StIdle
    /\ env \in SUBSET EnvNames
    /\ boto3 \in {"ok", "missing", "fails"}
    /\ folderOk = TRUE
    /\ facLast = None

NextConstruct ==
    \/ ConstructSpaces
    \/ \E bytes \in Contents, outcome \in Outcomes : ConstructedSave(bytes, outcome)

SpecConstruct == InitConstruct /\ [][NextConstruct]_vars

\* ------------------------------------------------------------------ C21
\* C21: constructing the object-store backend fails at once, with a
\* configuration error, whenever a required setting is missing or the client
\* cannot be built; no instance exists without a usable client, so save never
\* fails later for lack of configuration.
C21_ConstructionFailsFast ==
    facLast.kind = "construct" =>
      /\ (~(RequiredSettings \subseteq env) \/ boto3 # "ok")
            => facLast.backend.raised # NoError
      /\ facLast.backend.kind = "spaces" => facLast.backend.client
      /\ stLast.kind = "spaces_save" => stLast.raised # "RuntimeError"

\* ---------------------------------------- storage.py: get_storage_backend
\* get_storage_backend as the request threads of one process run it; a
\* thread can be suspended between any two of its steps
SbFrame == UNCHANGED <<coreVars, facVars, hlVars, thVars, wkVars, stVars, sbRest>>

\* a request thread calls get_storage_backend()
SbCall(t) ==
    /\ sbpc[t] \in {"idle", "done"}
    /\ sbpc' = [sbpc EXCEPT ![t] = "test"]
    /\ UNCHANGED <<sb, sbLoc, sbBuilt>>
    /\ SbFrame

\* if _storage_backend is None:
SbTest(t) ==
    /\ sbpc[t] = "test"
    /\ sbpc' = [sbpc EXCEPT ![t] = IF sb = NoInstance THEN "create" ELSE "return"]
    /\ UNCHANGED <<sb, sbLoc, sbBuilt>>
    /\ SbFrame

\* create_storage_backend() builds a new instance
SbCreate(t) ==
    /\ sbpc[t] = "create"
    /\ sbBuilt' = sbBuilt + 1
    /\ sbLoc' = [sbLoc EXCEPT ![t] = sbBuilt + 1]
    /\ sbpc' = [sbpc EXCEPT ![t] = "store"]
    /\ UNCHANGED sb
    /\ SbFrame

\* _storage_backend = <the new instance>
SbStore(t) ==
    /\ sbpc[t] = "store"
    /\ sb' = sbLoc[t]
    /\ sbpc' = [sbpc EXCEPT ![t] = "return"]
    /\ UNCHANGED <<sbLoc, sbBuilt>>
    /\ SbFrame

\* return _storage_backend
SbReturn(t) ==
    /\ sbpc[t] = "return"
    /\ sbLoc' = [sbLoc EXCEPT ![t] = sb]
    /\ sbpc' = [sbpc EXCEPT ![t] = "done"]
    /\ UNCHANGED <<sb, sbBuilt>>
    /\ SbFrame

InitSingleton == CoreIdle /\ SvcIdle

NextSingleton ==
    \E t \in Threads : SbCall(t) \/ SbTest(t) \/ SbCreate(t) \/ SbStore(t) \/ SbReturn(t)

SpecSingleton == InitSingleton /\ [][NextSingleton]_vars

\* ------------------------------------------------------------------ C22
\* C22: the storage backend is constructed at most once per process: after
\* any sequence of get_storage_backend calls, first calls made concurrently
\* by several request threads included, the factory has run once and all
\* callers hold the same instance.
C22_ConstructedOnce ==
    /\ sbBuilt <= 1
    /\ \A t \in Threads, u \in Threads :
          (sbpc[t] = "done" /\ sbpc[u] = "done") => sbLoc[t] = sbLoc[u]

\* ------------------------------------------ db_utils.py: get_database_info
UnknownText == <<"unknown">>

\* db_type_map.get(parsed.scheme, 'Unknown')
db_type_map(scheme) ==
    IF scheme = <<"sqlite">> THEN <<"SQLite">>
    ELSE IF scheme \in postgres_schemes THEN <<"PostgreSQL">>
    ELSE IF scheme \in {<<"mysql">>, <<"mysql+pymysql">>} THEN <<"MySQL">>
    ELSE IF scheme \in {<<"oracle">>, <<"oracle+cx_oracle">>} THEN <<"Oracle">>
    ELSE IF scheme = <<"mssql">> THEN <<"SQL Server">>
    ELSE <<"Unknown">>

\* the database name get_database_info extracts from the path
database_name(parsed) ==
    IF parsed.path = <<>> THEN UnknownText
    ELSE IF parsed.scheme = <<"sqlite">>
    THEN LET path == Strip(parsed.path, {"/"})
         IN  IF path # <<>> /\ path # <<":", "memory", ":">>
             THEN (IF Has(path, "/") THEN RPartition(path, "/")[3] ELSE path)
             ELSE UnknownText
    ELSE LET first == Partition(LStrip(parsed.path, {"/"}), "/")[1]
         IN  IF first # <<>> THEN first ELSE UnknownText

\* the dict both early exits of get_database_info return
UnknownInfo ==
    [type |-> <<"unknown">>, host |-> UnknownText, port |-> NoPort,
     database |-> UnknownText, is_production_ready |-> FALSE]

\* whether the try block of each function raises: urlparse raises ValueError
\* on an unbalanced bracket, parsed.port on a port that is no number in
\* 0..65535, and None += str raises TypeError
MaskTryRaises(database_uri) ==
    LET parsed == urlparse(database_uri)
    IN  \/ parsed.err
        \/ /\ parsed.scheme # <<"sqlite">>
           /\ Truthy(username(parsed)) \/ Truthy(password(parsed))
           /\ MaskedNetloc(parsed).err
ValidTryRaises(database_uri) ==
    LET parsed == urlparse(database_uri)
    IN  \/ parsed.err
        \/ /\ parsed.scheme \in postgres_schemes
           /\ Truthy(hostname(parsed))
           /\ Lower(hostname(parsed)) \notin localhost_indicators
           /\ Truthy(username(parsed)) /\ Truthy(password(parsed))
           /\ parsed.path # <<>> /\ parsed.path # <<"/">>
           /\ PortRaises(parsed)
InfoTryRaises(database_uri) ==
    LET parsed == urlparse(database_uri)
    IN  parsed.err \/ PortRaises(parsed)

\* the dict get_database_info builds from the parsed connection string
DatabaseInfo(database_uri, parsed) ==
    [type |-> db_type_map(parsed.scheme),
     host |-> IF Truthy(hostname(parsed)) THEN hostname(parsed) ELSE UnknownText,
     port |-> port(parsed),
     database |-> database_name(parsed),
     is_production_ready |-> is_valid_prod_db_url(database_uri)]

get_database_info(database_uri) ==
    IF ~Truthy(database_uri) THEN UnknownInfo
    ELSE CHOOSE info \in
           {IF parsed.err \/ PortRaises(parsed) THEN UnknownInfo
            ELSE DatabaseInfo(database_uri, parsed) :
               parsed \in {urlparse(database_uri)}} : TRUE

\* try: ... except Exception: return <handled>  -- nothing leaves the function
ExceptExceptionMut(raises, value) == [raised |-> raises, value |-> value]
ExceptException(raises, value) == [raised |-> FALSE, value |-> value]

UtilNames == {"mask_db_uri", "is_valid_prod_db_url", "get_database_info"}

\* one call of a db_utils function on the connection string uin
UtilCall(fn) ==
    \E t \in {uin.text} :
      \E out \in
          {IF fn = "mask_db_uri"
           THEN ExceptException(Truthy(t) /\ MaskTryRaises(t), mask_db_uri(t))
           ELSE IF fn = "is_valid_prod_db_url"
           THEN ExceptException(Truthy(t) /\ ValidTryRaises(t), is_valid_prod_db_url(t))
           ELSE ExceptException(Truthy(t) /\ InfoTryRaises(t), get_database_info(t))} :
        /\ uriOut' = [kind |-> "call", fn |-> fn, raised |-> out.raised, value |-> out.value]
        /\ UNCHANGED <<coreVars, facVars, hlVars, thVars, wkVars, stVars, infoRest>>

InitUtil ==
    /\ RLIdle /\ UpIdle /\ KeyIdle /\ SvcIdle
    /\ uin \in UriInputs
    /\ called = {}
    /\ masked = <<>>
    /\ maskedAlt = <<>>
    /\ prodReady = FALSE

NextUtil == \E fn \in UtilNames : UtilCall(fn)

SpecUtil == InitUtil /\ [][NextUtil]_vars

Routes == {"/", "/health"}

\* the limiter a route is counted against: both liveness routes use the
\* health limiter
RouteLimiterMut(r) == IF r = "/" THEN "upload" ELSE "health"
RouteLimiter(r) == "health"

\* the requests of this client to the liveness routes so far, newest last
RouteLog == IF hLast.kind = "route" THEN hLast.reqs ELSE <<>>

\* One request of client k to route r: the route's limiter is asked first and
\* its refusal is answered 429.
RouteRequest(r, k) ==
    /\ CheckCore(RouteLimiter(r), k)
    /\ hLast' = [kind |-> "route", route |-> r, key |-> k,
                 status |-> IF rlLast'.allowed THEN 200 ELSE 429,
                 reqs |-> Append(Recent(RouteLog, Window("health"), now),
                                 [at |-> now, route |-> r])]
    /\ UNCHANGED <<dbUp, uriVars, upVars, keyVars, facVars, appVars, thVars, wkVars, stVars>>

InitRoutes == CoreIdle /\ SvcIdle

NextRoutes == (\E r \in Routes : RouteRequest(r, UClient)) \/ TickLimiters

SpecRoutes == InitRoutes /\ [][NextRoutes]_vars

\* the requests to either route that fall into the client's current window
RouteHits(from) ==
    {i \in DOMAIN RouteLog :
        RouteLog[i].at >= from /\ RouteLog[i].at < from + Window("health")}

NoIdentity == 0          \* no JWT was verified for the request
NoToken == 0

Usernames == {"alice", "bob", "carol"}
Passwords == {"pw-alice", "pw-bob", "pw-carol"}
Roles == {"admin", "manager", "user"}

PasswordOf(uname) ==
    IF uname = "alice" THEN "pw-alice"
    ELSE IF uname = "bob" THEN "pw-bob" ELSE "pw-carol"

NewUser(company_id, uname, role) ==
    [company_id |-> company_id, username |-> uname, password |-> PasswordOf(uname),
     role |-> role, is_active |-> TRUE, last_login |-> -1]

\* Query.first() over a table: the lowest id whose row satisfies P, or 0
First(table, P(_)) ==
    IF \E i \in DOMAIN table : P(table[i])
    THEN CHOOSE i \in DOMAIN table : P(table[i]) /\ \A j \in 1..(i - 1) : ~P(table[j])
    ELSE 0

\* get_jwt_identity(): raises RuntimeError unless jwt_required verified a token
JwtIdentityRaises(identity) == identity = NoIdentity

\* update_user_kpi(user_id, module, kpi_name, current_value) for a request
\* with the given JWT identity: get_current_company() comes first; the row is
\* created with target 100 or updated, and an achievement below 70 % raises a
\* vigilance alert.
update_user_kpi(identity, user_id, module, kpi_name, current_value) ==
    IF JwtIdentityRaises(identity) \/ identity \notin DOMAIN users
    THEN [raised |-> TRUE, kpis |-> kpis, alerts |-> alerts]
    ELSE LET cid == users[identity].company_id
             old == {r \in kpis : r.company_id = cid /\ r.user_id = user_id
                                   /\ r.module = module /\ r.kpi_name = kpi_name}
             row == [company_id |-> cid, user_id |-> user_id, module |-> module,
                     kpi_name |-> kpi_name, current_value |-> current_value]
         IN  [raised |-> FALSE,
              kpis |-> (kpis \ old) \cup {row},
              alerts |-> IF current_value < 70
                         THEN alerts \cup {<<user_id, kpi_name>>} ELSE alerts]

ErpFrame == UNCHANGED <<coreVars, facVars, hlVars, thVars, wkVars, stVars, erpRest>>

\* POST /api/auth/login {username, password}; an empty text is a missing field
login(uname, pw) ==
    LET uid == First(users, LAMBDA u : u.username = uname /\ u.is_active)
        ok == uid # 0 /\ users[uid].password = pw
        after == IF ok THEN [users EXCEPT ![uid].last_login = now] ELSE users
        \* the request carries no JWT: update_user_kpi raises after the commit
        \* of last_login, and the handler's except clause answers 500
        kpi == update_user_kpi(NoIdentity, uid, "system", "login_count", 1)
    IN  /\ users' = after
        /\ kpis' = IF ok THEN kpi.kpis ELSE kpis
        /\ alerts' = IF ok THEN kpi.alerts ELSE alerts
        /\ erpLast' = [kind |-> "login", username |-> uname, password |-> pw,
                       before |-> users,
                       status |-> IF uname = "" \/ pw = "" THEN 400
                                  ELSE IF ~ok THEN 401
                                  ELSE IF kpi.raised THEN 500 ELSE 200,
                       token |-> IF ok /\ ~kpi.raised THEN uid ELSE NoToken]
        /\ UNCHANGED companies
        /\ ErpFrame

\* an administrator deactivates or reactivates a user (DELETE /api/users/<id>
\* sets is_active = False)
SetActive(uid, flag) ==
    /\ uid \in DOMAIN users
    /\ users[uid].is_active # flag
    /\ users' = [users EXCEPT ![uid].is_active = flag]
    /\ UNCHANGED <<companies, erpLast, kpis, alerts>>
    /\ ErpFrame

ErpTick ==
    /\ now < MaxTime
    /\ now' = now + 1
    /\ UNCHANGED <<hits, rlLog, rlLast, uriVars, upVars, keyVars, svcVars>>

ErpCompanies == <<[name |-> "acme", is_active |-> TRUE], [name |-> "globex", is_active |-> TRUE]>>

InitLogin ==
    /\ CoreIdle /\ FacIdle /\ HlIdle /\ ThIdle /\ WkIdle /\ StIdle
    /\ SbIdle /\ InfoIdle /\ AttIdle /\ LikeIdle /\ InitDbIdle
    /\ companies = ErpCompanies
    /\ users = <<NewUser(1, "alice", "admin"), NewUser(2, "bob", "user")>>
    /\ erpLast = None
    /\ kpis = {}
    /\ alerts = {}

NextLogin ==
    \/ \E uname \in {"alice", "bob", "carol", ""}, pw \in Passwords \cup {""} :
          login(uname, pw)
    \/ \E uid \in 1..2, flag \in BOOLEAN : SetActive(uid, flag)
    \/ ErpTick

SpecLogin == InitLogin /\ [][NextLogin]_vars

\* ------------------------------------------------------------------ C26
\* C26: POST /api/auth/login with the correct password of an active user
\* answers 200 with an access token for that user; with a wrong password, an
\* unknown username or a deactivated user it answers 401, issues no token and
\* leaves the user record unchanged.
C26_LoginAnswers ==
    (erpLast.kind = "login" /\ erpLast.username # "" /\ erpLast.password # "") =>
      LET b == erpLast.before
          good == {i \in DOMAIN b : /\ b[i].username = erpLast.username
                                    /\ b[i].is_active
                                    /\ b[i].password = erpLast.password}
      IN  IF good # {}
          THEN erpLast.status = 200 /\ erpLast.token \in good
          ELSE erpLast.status = 401 /\ erpLast.token = NoToken /\ users = b

\* ------------------------------- app.py: companies, users and registration
MaxUsers == 3
MaxCompanies == 3

NewNames == {"carol"}
CompanyNames == {"acme", "initech"}

CompanyOf(table, uid) == table[uid].company_id
HasRow(table, P(_)) == First(table, P) # 0

\* the response of a handler and the tables it leaves: seen and changed are
\* the companies owning the records that were returned and written
ErpAnswer(kind, actor, status, seen, changed, target, users2, companies2, kpi) ==
    /\ users' = users2
    /\ companies' = companies2
    /\ kpis' = kpi.kpis
    /\ alerts' = kpi.alerts
    /\ erpLast' = [kind |-> kind, actor |-> actor, status |-> status, seen |-> seen,
                   changed |-> changed, target |-> target,
                   actor_role |-> IF actor = NoIdentity THEN "none" ELSE users[actor].role,
                   actor_company |-> IF actor = NoIdentity THEN 0
                                     ELSE CompanyOf(users, actor)]
    /\ ErpFrame

NoKpi == [raised |-> FALSE, kpis |-> kpis, alerts |-> alerts]

\* POST /api/auth/register, without authentication
register(uname, company_name, role) ==
    LET cid == First(companies, LAMBDA c : c.name = company_name)
        newc == cid = 0
        cs == IF newc THEN Append(companies, [name |-> company_name, is_active |-> TRUE])
              ELSE companies
        id == IF newc THEN Len(cs) ELSE cid
    IN  /\ Len(users) < MaxUsers
        /\ newc => Len(companies) < MaxCompanies
        /\ IF HasRow(users, LAMBDA u : u.username = uname)
           THEN ErpAnswer("register", NoIdentity, 400, {}, {}, 0, users, companies, NoKpi)
           ELSE ErpAnswer("register", NoIdentity, 201, {}, {id}, 0,
                          Append(users, NewUser(id, uname, role)), cs, NoKpi)

\* GET /api/companies
companies_get(actor) ==
    /\ actor \in DOMAIN users
    /\ ErpAnswer("companies_get", actor, 200,
                 IF users[actor].role # "admin" THEN {CompanyOf(users, actor)}
                 ELSE DOMAIN companies,
                 {}, 0, users, companies, NoKpi)

\* POST /api/companies {name, code}; code is unique
companies_post(actor, name) ==
    /\ actor \in DOMAIN users
    /\ Len(companies) < MaxCompanies
    /\ IF users[actor].role # "admin"
       THEN ErpAnswer("companies_post", actor, 403, {}, {}, 0, users, companies, NoKpi)
       ELSE IF HasRow(companies, LAMBDA c : c.name = name)
       THEN ErpAnswer("companies_post", actor, 409, {}, {}, 0, users, companies, NoKpi)
       ELSE ErpAnswer("companies_post", actor, 201, {}, {Len(companies) + 1}, 0, users,
                      Append(companies, [name |-> name, is_active |-> TRUE]), NoKpi)

\* GET, PUT {is_active: true} and DELETE /api/companies/<company_id>, behind
\* roles_required('admin')
company_detail(actor, company_id, method) ==
    /\ actor \in DOMAIN users
    /\ IF users[actor].role # "admin"
       THEN ErpAnswer("company_detail", actor, 403, {}, {}, company_id, users, companies, NoKpi)
       ELSE IF company_id \notin DOMAIN companies
       THEN ErpAnswer("company_detail", actor, 404, {}, {}, 0, users, companies, NoKpi)
       ELSE IF method = "GET"
       THEN ErpAnswer("company_detail", actor, 200, {company_id}, {}, company_id,
                      users, companies, NoKpi)
       ELSE IF method = "PUT"
       THEN ErpAnswer("company_detail", actor, 200, {}, {company_id}, company_id, users,
                      [companies EXCEPT ![company_id].is_active = TRUE], NoKpi)
       ELSE ErpAnswer("company_detail", actor, 200, {}, {company_id}, company_id, users,
                      [companies EXCEPT ![company_id].is_active = FALSE], NoKpi)

\* POST /api/users {username, ..., role}, behind company_required
users_post(actor, uname, role) ==
    /\ actor \in DOMAIN users
    /\ Len(users) < MaxUsers
    /\ IF users[actor].role \notin {"admin", "manager"}
       THEN ErpAnswer("users_post", actor, 403, {}, {}, 0, users, companies, NoKpi)
       ELSE IF HasRow(users, LAMBDA u : u.username = uname)
       THEN ErpAnswer("users_post", actor, 409, {}, {}, 0, users, companies, NoKpi)
       ELSE ErpAnswer("users_post", actor, 201, {}, {CompanyOf(users, actor)}, 0,
                      Append(users, NewUser(CompanyOf(users, actor), uname, role)),
                      companies,
                      update_user_kpi(actor, actor, "hr", "users_created", 1))

\* GET, PUT {role} and DELETE /api/users/<user_id>, behind company_required
user_detail(actor, user_id, method, role) ==
    LET mine == user_id \in DOMAIN users
                  /\ CompanyOf(users, user_id) = CompanyOf(users, actor)
        target == IF user_id \in DOMAIN users THEN CompanyOf(users, user_id) ELSE 0
    IN  /\ actor \in DOMAIN users
        /\ IF ~mine
           THEN ErpAnswer("user_detail", actor, 404, {}, {}, target, users, companies, NoKpi)
           ELSE IF method = "GET"
           THEN ErpAnswer("user_detail", actor, 200, {target}, {}, target,
                          users, companies, NoKpi)
           ELSE IF method = "PUT"
           THEN IF user_id # actor /\ users[actor].role \notin {"admin", "manager"}
                THEN ErpAnswer("user_detail", actor, 403, {}, {}, target,
                               users, companies, NoKpi)
                ELSE ErpAnswer("user_detail", actor, 200, {}, {target}, target,
                               IF users[actor].role = "admin"
                               THEN [users EXCEPT ![user_id].role = role] ELSE users,
                               companies, NoKpi)
           ELSE IF users[actor].role # "admin"
           THEN ErpAnswer("user_detail", actor, 403, {}, {}, target, users, companies, NoKpi)
           ELSE ErpAnswer("user_detail", actor, 200, {}, {target}, target,
                          [users EXCEPT ![user_id].is_active = FALSE], companies, NoKpi)

Methods == {"GET", "PUT", "DELETE"}

InitTenants ==
    /\ CoreIdle /\ FacIdle /\ HlIdle /\ ThIdle /\ WkIdle /\ StIdle
    /\ SbIdle /\ InfoIdle /\ AttIdle /\ LikeIdle /\ InitDbIdle
    /\ companies = ErpCompanies
    /\ \E r \in Roles : users = <<NewUser(1, "alice", r), NewUser(2, "bob", "user")>>
    /\ erpLast = None
    /\ kpis = {}
    /\ alerts = {}

NextTenants ==
    \/ \E uname \in NewNames, cn \in CompanyNames, role \in {"user", "admin"} :
          register(uname, cn, role)
    \/ \E actor \in 1..MaxUsers :
          \/ companies_get(actor)
          \/ companies_post(actor, "initech")
          \/ \E cid \in 1..MaxCompanies, m \in Methods : company_detail(actor, cid, m)
          \/ \E uname \in NewNames : users_post(actor, uname, "admin")
          \/ \E uid \in 1..MaxUsers, m \in Methods : user_detail(actor, uid, m, "admin")

SpecTenants == InitTenants /\ [][NextTenants]_vars

\* ------------------------------------------------------------------ C25
\* C25: company isolation: whatever an authenticated user of company A
\* requests, no endpoint returns, creates, modifies or deactivates a record
\* that belongs to another company, and a record of another company is
\* answered as not found (or refused as forbidden before it is looked up).
C25_CompanyIsolation ==
    (erpLast.kind # "none" /\ erpLast.actor # NoIdentity) =>
      LET A == erpLast.actor_company
      IN  /\ erpLast.seen \subseteq {A}
          /\ erpLast.changed \subseteq {A}
          /\ erpLast.target \notin {0, A} => erpLast.status \in {403, 404}

\* ------------------------------------------------------------------ C27
\* C27: only an admin grants the admin role: a request of an unauthenticated
\* caller or of a user whose role is not admin never leaves a new user with
\* role admin inside a company that existed before, nor a changed role of an
\* existing user.
C27_OnlyAdminGrantsAdmin ==
    [][(erpLast' # erpLast /\ erpLast'.actor_role # "admin") =>
          /\ \A i \in DOMAIN users' \ DOMAIN users :
                users'[i].role = "admin" => users'[i].company_id \notin DOMAIN companies
          /\ \A i \in DOMAIN users : users'[i].role = users[i].role]_vars

\* ------------------------------------ app.py: hr_checkin and hr_checkout
\* One employee of one company; the requests of that employee are handled by
\* the request workers, whose database round trips interleave.
NoTime == -1

AttFrame == UNCHANGED <<coreVars, facVars, hlVars, thVars, wkVars, stVars, attRest>>

\* AttendanceRecord.query.filter_by(company_id, employee_id, date=today).first()
TodaysRecord(table, today) == First(table, LAMBDA r : r.date = today)

\* the request arrives: data = request.get_json(), a body with 'location';
\* hasEmployee tells whether the user has an Employee row
AttStart(w, kind, hasEmployee) ==
    /\ attReq[w].pc = "idle"
    /\ attReq' = [attReq EXCEPT ![w] = [pc |-> "query", kind |-> kind,
                                        hasEmployee |-> hasEmployee]]
    /\ UNCHANGED <<attendance, attDone>>
    /\ AttFrame

\* the handler's queries: the Employee row, then today's attendance row
AttQuery(w) ==
    /\ attReq[w].pc = "query"
    /\ attReq' = [attReq EXCEPT ![w] =
                    [pc |-> "commit", kind |-> attReq[w].kind,
                     hasEmployee |-> attReq[w].hasEmployee,
                     today |-> now,
                     found |-> TodaysRecord(attendance, now),
                     row |-> IF TodaysRecord(attendance, now) = 0 THEN None
                             ELSE attendance[TodaysRecord(attendance, now)]]]
    /\ UNCHANGED <<attendance, attDone>>
    /\ AttFrame

\* what hr_checkin does with the row it read
hr_checkin(table, r) ==
    IF ~r.hasEmployee THEN [status |-> 404, table |-> table]
    ELSE IF r.found # 0 /\ r.row.checkin_time # NoTime THEN [status |-> 400, table |-> table]
    ELSE IF r.found = 0
    THEN [status |-> 200,
          table |-> Append(table, [date |-> r.today, checkin_time |-> now,
                                   checkout_time |-> NoTime])]
    ELSE [status |-> 200, table |-> [table EXCEPT ![r.found].checkin_time = now]]

\* what hr_checkout does with the row it read
hr_checkout(table, r) ==
    IF ~r.hasEmployee THEN [status |-> 404, table |-> table]
    ELSE IF r.found = 0 \/ r.row.checkin_time = NoTime THEN [status |-> 400, table |-> table]
    ELSE IF r.row.checkout_time # NoTime THEN [status |-> 400, table |-> table]
    ELSE [status |-> 200, table |-> [table EXCEPT ![r.found].checkout_time = now]]

\* the rest of the handler: the answer, db.session.commit() and the KPI
AttCommit(w) ==
    LET r == attReq[w]
        out == IF r.kind = "checkin" THEN hr_checkin(attendance, r)
               ELSE hr_checkout(attendance, r)
        kpi == IF out.status # 200 THEN NoKpi
               ELSE IF r.kind = "checkin"
               THEN update_user_kpi(1, 1, "hr", "attendance_checkins", 1)
               ELSE update_user_kpi(1, 1, "hr", "total_work_hours", 0)
    IN  /\ r.pc = "commit"
        /\ attendance' = out.table
        /\ attDone' = IF out.status = 200
                      THEN [attDone EXCEPT ![r.kind][r.today] = @ + 1] ELSE attDone
        /\ attReq' = [attReq EXCEPT ![w] = [pc |-> "idle", status |-> out.status,
                                            unchanged |-> out.table = attendance]]
        /\ kpis' = kpi.kpis
        /\ alerts' = kpi.alerts
        /\ UNCHANGED <<companies, users, erpLast>>
        /\ UNCHANGED <<coreVars, facVars, hlVars, thVars, wkVars, stVars>>
        /\ UNCHANGED <<sbVars, infoVars, likeVars, initVars>>

\* midnight (UTC) passes
AttTick ==
    /\ now < MaxDays
    /\ now' = now + 1
    /\ UNCHANGED <<hits, rlLog, rlLast, uriVars, upVars, keyVars, svcVars>>

InitAttendance ==
    /\ CoreIdle /\ FacIdle /\ HlIdle /\ ThIdle /\ WkIdle /\ StIdle
    /\ SbIdle /\ InfoIdle /\ AttIdle /\ LikeIdle /\ InitDbIdle
    /\ companies = ErpCompanies
    /\ users = <<NewUser(1, "alice", "user")>>
    /\ erpLast = None
    /\ kpis = {}
    /\ alerts = {}

NextAttendance ==
    \/ \E w \in Workers :
          \/ \E kind \in AttKinds, e \in BOOLEAN : AttStart(w, kind, e)
          \/ AttQuery(w)
          \/ AttCommit(w)
    \/ AttTick

SpecAttendance == InitAttendance /\ [][NextAttendance]_vars

\* ------------------------------------------------------------------ C28
\* C28: attendance state machine: for the employee and each calendar day,
\* after any sequence or interleaving of check-in and check-out requests, at
\* most one attendance record exists, a check-in succeeds at most once, a
\* check-out succeeds only after a successful check-in and at most once,
\* checkout_time is set only if checkin_time is set, and every rejected
\* request (400 or 404) leaves the attendance record unchanged.
C28_AttendanceMachine ==
    /\ \A day \in 0..MaxDays :
          /\ Cardinality({i \in DOMAIN attendance : attendance[i].date = day}) <= 1
          /\ attDone["checkin"][day] <= 1
          /\ attDone["checkout"][day] <= 1
          /\ attDone["checkout"][day] > 0 => attDone["checkin"][day] > 0
    /\ \A i \in DOMAIN attendance :
          attendance[i].checkout_time # NoTime => attendance[i].checkin_time # NoTime
    /\ \A w \in Workers :
          (attReq[w].pc = "idle" /\ "status" \in DOMAIN attReq[w]
             /\ attReq[w].status \in {400, 404}) => attReq[w].unchanged

\* ------------------------------------------- app.py: community_like_post
\* One post of company 1; users 1 and 2 belong to company 1, user 3 to
\* company 2.  The requests are handled by the request workers, whose
\* database round trips interleave.
MaxLikes == 3

LikeUsers == <<NewUser(1, "alice", "user"), NewUser(1, "bob", "user"),
               NewUser(2, "carol", "user")>>

LikeFrame == UNCHANGED <<coreVars, facVars, hlVars, thVars, wkVars, stVars, likeRest>>

LikeStart(w, uid) ==
    /\ likeReq[w].pc = "idle"
    /\ likeSeq < MaxLikes
    /\ likeReq' = [likeReq EXCEPT ![w] = [pc |-> "query", user |-> uid]]
    /\ UNCHANGED <<likes, likes_count, likeSeq, likeLast>>
    /\ LikeFrame

\* the id of the user's like of the post, CommunityLike...first(), or 0
ExistingLike(rows, uid) ==
    IF \E r \in rows : r.user_id = uid
    THEN (CHOOSE r \in rows : r.user_id = uid /\ \A q \in rows : q.user_id = uid => r.id <= q.id).id
    ELSE 0

\* the handler's queries: the post with its likes_count, then the user's like
LikeQuery(w) ==
    /\ likeReq[w].pc = "query"
    /\ likeReq' = [likeReq EXCEPT ![w] =
                     [pc |-> "commit", user |-> likeReq[w].user,
                      post_found |-> users[likeReq[w].user].company_id = 1,
                      count |-> likes_count,
                      existing_like |-> ExistingLike(likes, likeReq[w].user)]]
    /\ UNCHANGED <<likes, likes_count, likeSeq, likeLast>>
    /\ LikeFrame

Max0(n) == IF n < 0 THEN 0 ELSE n

\* what community_like_post writes, from the post and the like it has read;
\* deleting a row that another request has deleted raises StaleDataError
community_like_post(rows, seq, r) ==
    IF ~r.post_found THEN [status |-> 404, likes |-> rows, count |-> likes_count, seq |-> seq]
    ELSE IF r.existing_like # 0
    THEN IF \E q \in rows : q.id = r.existing_like
         THEN [status |-> 200, likes |-> {q \in rows : q.id # r.existing_like},
               count |-> Max0(r.count - 1), seq |-> seq]
         ELSE [status |-> 500, likes |-> rows, count |-> likes_count, seq |-> seq]
    ELSE [status |-> 200, likes |-> rows \cup {[id |-> seq + 1, user_id |-> r.user]},
          count |-> r.count + 1, seq |-> seq + 1]

\* the rest of the handler: db.session.commit(), the KPI and the answer
LikeCommit(w) ==
    LET r == likeReq[w]
        out == community_like_post(likes, likeSeq, r)
        kpi == IF out.status # 200 THEN NoKpi
               ELSE update_user_kpi(r.user, r.user, "community", "post_interactions", 1)
    IN  /\ r.pc = "commit"
        /\ likes' = out.likes
        /\ likes_count' = out.count
        /\ likeSeq' = out.seq
        /\ likeReq' = [likeReq EXCEPT ![w] = [pc |-> "idle"]]
        /\ likeLast' = [kind |-> "like", user |-> r.user, status |-> out.status,
                        before |-> likes_count, likes_count |-> out.count]
        /\ kpis' = kpi.kpis
        /\ alerts' = kpi.alerts
        /\ UNCHANGED <<companies, users, erpLast>>
        /\ UNCHANGED <<coreVars, facVars, hlVars, thVars, wkVars, stVars>>
        /\ UNCHANGED <<sbVars, infoVars, attVars, initVars>>

InitLikes ==
    /\ CoreIdle /\ FacIdle /\ HlIdle /\ ThIdle /\ WkIdle /\ StIdle
    /\ SbIdle /\ InfoIdle /\ AttIdle /\ LikeIdle /\ InitDbIdle
    /\ companies = ErpCompanies
    /\ users = LikeUsers
    /\ erpLast = None
    /\ kpis = {}
    /\ alerts = {}

NextLikes ==
    \E w \in Workers :
       \/ \E uid \in DOMAIN LikeUsers : LikeStart(w, uid)
       \/ LikeQuery(w)
       \/ LikeCommit(w)

SpecLikes == InitLikes /\ [][NextLikes]_vars

\* ------------------------------------------------------------------ C29
\* C29: like toggle: after any sequence of like requests on a post, requests
\* of different users handled concurrently included, likes_count equals the
\* number of CommunityLike rows of the post and is never negative, each user
\* holds at most one like on the post, and two consecutive requests by the
\* same user restore the previous likes_count.
C29_LikeToggle ==
    /\ [](/\ likes_count = Cardinality(likes)
          /\ likes_count >= 0
          /\ \A r \in likes, q \in likes : r.user_id = q.user_id => r = q)
    /\ [][(/\ likeLast' # likeLast
           /\ likeLast.kind = "like" /\ likeLast.status = 200
           /\ likeLast'.status = 200 /\ likeLast'.user = likeLast.user)
            => likes_count' = likeLast.before]_vars

\* ---------------------------------------------------------------------
\* Database initialisation at process start: wsgi.py and init_db.py
\* ---------------------------------------------------------------------

\* the number of process starts of one worker process that are explored
MaxStarts == 2

\* the columns of the companies table, which are the keyword arguments the
\* declarative constructor of Company accepts
CompanyColumns ==
    {"id", "name", "code", "domain", "logo_url", "address", "phone",
     "email", "created_at", "is_active"}

\* the keyword arguments init_database passes to Company(...)
CompanyKwargs ==
    {"name", "code", "domain", "email", "phone", "address", "industry",
     "subscription_plan", "is_active", "created_at"}

\* the columns of the users table and the keyword arguments of User(...)
UserColumns ==
    {"id", "company_id", "username", "email", "password_hash", "first_name",
     "last_name", "profile_picture", "phone", "department", "position",
     "manager_id", "birth_date", "marital_status", "emergency_contact",
     "skills", "certifications", "role", "is_active", "last_login",
     "current_location_lat", "current_location_lng",
     "current_location_address", "created_at", "updated_at"}

UserKwargs ==
    {"company_id", "username", "email", "password_hash", "first_name",
     "last_name", "phone", "department", "position", "role", "is_active",
     "created_at"}

\* the constructor of a model raises TypeError for a keyword argument that
\* is not an attribute of the class
ConstructorRaises(kwargs, columns) == kwargs \ columns # {}

DEFAULT_COMPANY_CODE == "DEFAULT"
ADMIN_USERNAME == "admin"

EmptyTables == [companies |-> {}, users |-> {}]

\* a database that already holds a company and its administrator when the
\* process connects to it
SeededTables ==
    [companies |-> {[id |-> 1, code |-> DEFAULT_COMPANY_CODE]},
     users |-> {[id |-> 1, company_id |-> 1, username |-> ADMIN_USERNAME,
                 role |-> "admin"]}]

\* db.session.rollback(): the pending rows of the session are dropped
Rollback(session) == EmptyTables

DownProcess ==
    [pc |-> "down", result |-> "none", fault |-> FALSE, starts |-> 0,
     session |-> EmptyTables]

InitDbFrame ==
    UNCHANGED <<coreVars, facVars, hlVars, thVars, wkVars, stVars, initRest>>

\* the except clause of init_database and the one of wsgi.py around it: the
\* session is rolled back, the exception is raised again, wsgi.py prints a
\* warning and the application object is served
InitFailed(r, dbok) ==
    [r EXCEPT !.pc = "serving", !.result = "failed",
              !.fault = r.fault \/ ~dbok,
              !.session = Rollback(r.session)]

\* a worker process imports wsgi.py
WsgiStart(p) ==
    /\ initRun[p].pc = "down"
    /\ initRun[p].starts < MaxStarts
    /\ initRun' = [initRun EXCEPT ![p] =
                     [pc |-> "create_all", result |-> "none", fault |-> FALSE,
                      starts |-> initRun[p].starts + 1,
                      session |-> EmptyTables]]
    /\ UNCHANGED tables
    /\ InitDbFrame

\* db.create_all() of wsgi.py: a failure is caught by the outer except and
\* init_database is not called
WsgiCreateAll(p, dbok) ==
    /\ initRun[p].pc = "create_all"
    /\ initRun' = [initRun EXCEPT ![p] =
                     IF dbok THEN [@ EXCEPT !.pc = "init"]
                     ELSE [@ EXCEPT !.pc = "serving", !.result = "skipped",
                                    !.fault = TRUE]]
    /\ UNCHANGED tables
    /\ InitDbFrame

\* init_database up to the early return: create_all and Company.query.first()
InitQuery(p, dbok) ==
    /\ initRun[p].pc = "init"
    /\ initRun' = [initRun EXCEPT ![p] =
                     IF ~dbok THEN InitFailed(@, dbok)
                     ELSE IF tables.companies # {}
                          THEN [@ EXCEPT !.pc = "serving",
                                         !.result = "existing"]
                          ELSE [@ EXCEPT !.pc = "create"]]
    /\ UNCHANGED tables
    /\ InitDbFrame

NextRowId(rows) == Cardinality(rows) + 1

\* init_database after the early return: the company is constructed, added
\* and flushed, the administrator is looked up, constructed and added, and
\* the session is committed; the outcome is the tables after the commit, or
\* an exception.  The unique constraints on companies.code and
\* users.username raise IntegrityError.
init_database(db, dbok) ==
    LET company == [id |-> NextRowId(db.companies),
                    code |-> DEFAULT_COMPANY_CODE]
        existing_admin == {u \in db.users :
                              u.company_id = company.id /\ u.role = "admin"}
        admin_user == [id |-> NextRowId(db.users), company_id |-> company.id,
                       username |-> ADMIN_USERNAME, role |-> "admin"]
        raises ==
            \/ ConstructorRaises(CompanyKwargs, CompanyColumns)
            \/ ~dbok
            \/ \E c \in db.companies : c.code = company.code
            \/ /\ existing_admin = {}
               /\ \/ ConstructorRaises(UserKwargs, UserColumns)
                  \/ \E u \in db.users : u.username = admin_user.username
    IN  IF raises THEN [raised |-> TRUE, db |-> db]
        ELSE [raised |-> FALSE,
              db |-> [companies |-> db.companies \cup {company},
                      users |-> IF existing_admin = {}
                                THEN db.users \cup {admin_user}
                                ELSE db.users]]

InitCreate(p, dbok) ==
    LET out == init_database(tables, dbok)
    IN  /\ initRun[p].pc = "create"
        /\ tables' = out.db
        /\ initRun' = [initRun EXCEPT ![p] =
                         IF out.raised THEN InitFailed(@, dbok)
                         ELSE [@ EXCEPT !.pc = "serving",
                                        !.result = "created"]]
        /\ InitDbFrame

\* the worker process is stopped
WsgiStop(p) ==
    /\ initRun[p].pc = "serving"
    /\ initRun' = [initRun EXCEPT ![p].pc = "down"]
    /\ UNCHANGED tables
    /\ InitDbFrame

InitInitDb ==
    /\ CoreIdle /\ FacIdle /\ HlIdle /\ ThIdle /\ WkIdle /\ StIdle
    /\ SbIdle /\ InfoIdle /\ ErpIdle /\ AttIdle /\ LikeIdle
    /\ tables \in {EmptyTables, SeededTables}
    /\ initRun = [p \in Workers |-> DownProcess]

NextInitDb ==
    \E p \in Workers :
       \/ WsgiStart(p)
       \/ \E dbok \in BOOLEAN : WsgiCreateAll(p, dbok)
       \/ \E dbok \in BOOLEAN : InitQuery(p, dbok)
       \/ \E dbok \in BOOLEAN : InitCreate(p, dbok)
       \/ WsgiStop(p)

SpecInitDb == InitInitDb /\ [][NextInitDb]_vars

DefaultCompanies == {c \in tables.companies : c.code = DEFAULT_COMPANY_CODE}
DefaultAdmins == {u \in tables.users : u.username = ADMIN_USERNAME}

\* C30: initialisation is idempotent.  At most one default company and one
\* default administrator ever exist; a run that finds the database empty and
\* meets no database fault leaves exactly one company and one administrator;
\* a run that finds a company changes nothing; and a failing run leaves the
\* tables as they were, with nothing pending, and the process serving.
C30_InitIdempotent ==
    /\ [](Cardinality(DefaultCompanies) <= 1 /\ Cardinality(DefaultAdmins) <= 1)
    /\ [][\A p \in Workers :
            (/\ initRun[p].pc = "create"
             /\ initRun'[p].pc = "serving"
             /\ ~initRun'[p].fault
             /\ tables = EmptyTables)
            => /\ Cardinality(tables'.companies) = 1
               /\ Cardinality(tables'.users) = 1
               /\ \A u \in tables'.users : u.role = "admin"]_vars
    /\ [][\A p \in Workers :
            (initRun[p].pc = "init" /\ initRun'[p].result = "existing")
            => tables' = tables]_vars
    /\ [][\A p \in Workers :
            (initRun[p].pc \in {"init", "create"}
             /\ initRun'[p].result = "failed")
            => /\ tables' = tables
               /\ initRun'[p].session = EmptyTables
               /\ initRun'[p].pc = "serving"]_vars

====
